---------------------------- MODULE Spec2Model ----------------------------
(***************************************************************************)
(* A model of pepalyzer: the identifier extractor (pep_parser.py), the     *)
(* aggregator (aggregator.py), the metadata reader (pep_metadata.py), the  *)
(* signal detector (signals.py) and the formatters (formatters.py).        *)
(*                                                                         *)
(* Python strings are sequences of one-character strings, so that path     *)
(* splitting, prefix matching, sorting and regular-expression search are   *)
(* computed character by character as the code computes them.              *)
(***************************************************************************)
EXTENDS Integers, Sequences, FiniteSets, TLC

VARIABLES
    commits,          \* aggregate_by_pep: the commits argument
    repo_path,        \* aggregate_by_pep: the repo_path argument
    repo,             \* the files under repo_path: path -> outcome of reading it
    activities,       \* aggregate_by_pep: the returned list; the formatters'
                      \* activities argument
    content,          \* detect_signals: the content argument
    pep_number,       \* detect_signals: the pep_number argument
    signals,          \* detect_signals: the returned list; the formatters'
                      \* signals argument
    parsed_path,      \* extract_pep_number: the file_path argument
    prefixed_path,    \* extract_pep_number: file_path under a directory
    parsed_number,    \* extract_pep_number(parsed_path)
    prefixed_number,  \* extract_pep_number(prefixed_path)
    pep_text,         \* extract_pep_metadata: the content argument
    pep_headers,      \* extract_pep_metadata: the local headers
    pep_metadata,     \* extract_pep_metadata: the returned PepMetadata
    text_output,      \* format_as_text: the returned string
    json_output,      \* format_as_json: the value serialized
    git_run,          \* get_recent_commits: how subprocess.run(["git", "log",
                      \* ...]) ends
    git_output,       \* _parse_git_log: the git_output argument; result.stdout
    git_returned,     \* what _parse_git_log or get_recent_commits returns or
                      \* raises
    pc                \* "call" before a function has run; "done", "text",
                      \* "json" or "parsed" after

parser_vars == <<parsed_path, prefixed_path, parsed_number, prefixed_number>>
metadata_vars == <<pep_text, pep_headers, pep_metadata>>
format_vars == <<text_output, json_output>>
git_vars == <<git_run, git_output, git_returned>>

vars == <<commits, repo_path, repo, activities, content, pep_number, signals,
          parser_vars, metadata_vars, format_vars, git_vars, pc>>

-----------------------------------------------------------------------------
(* Characters and strings                                                  *)

\* The characters of the model, in ascending code point order.
Alphabet ==
    << "\t", "\n", " ", "#", ",", "-", ".", "/",
       "0", "1", "2", "3", "4", "5", "6", "7", "8", "9", ":", "=",
       "A", "B", "C", "D", "E", "F", "G", "H", "I", "J", "K", "L", "M",
       "N", "O", "P", "Q", "R", "S", "T", "U", "V", "W", "X", "Y", "Z",
       "\\", "_",
       "a", "b", "c", "d", "e", "f", "g", "h", "i", "j", "k", "l", "m",
       "n", "o", "p", "q", "r", "s", "t", "u", "v", "w", "x", "y", "z" >>

Chars == {Alphabet[i] : i \in 1..Len(Alphabet)}

\* ord(c), up to an order-preserving renumbering.
Ord == [c \in Chars |-> CHOOSE i \in 1..Len(Alphabet) : Alphabet[i] = c]

Upper == <<"A", "B", "C", "D", "E", "F", "G", "H", "I", "J", "K", "L", "M",
           "N", "O", "P", "Q", "R", "S", "T", "U", "V", "W", "X", "Y", "Z">>
Lower == <<"a", "b", "c", "d", "e", "f", "g", "h", "i", "j", "k", "l", "m",
           "n", "o", "p", "q", "r", "s", "t", "u", "v", "w", "x", "y", "z">>
Digits == <<"0", "1", "2", "3", "4", "5", "6", "7", "8", "9">>

UpperSet == {Upper[i] : i \in 1..26}
LowerSet == {Lower[i] : i \in 1..26}
DigitSet == {Digits[i] : i \in 1..10}

\* str.lower() on one character.
LowerChar == [c \in Chars |->
    IF c \in UpperSet THEN Lower[CHOOSE i \in 1..26 : Upper[i] = c] ELSE c]

\* str.lower()
ToLower(s) == [i \in 1..Len(s) |-> LowerChar[s[i]]]

\* int(c) for a decimal digit c.
DigitValue == [c \in DigitSet |-> (CHOOSE i \in 1..10 : Digits[i] = c) - 1]

\* Python's None where an int is expected (a PEP number is never negative).
None == -1

\* Python's None where a str is expected: no string holds the element "None".
NoneStr == <<"None">>

\* a < b on Python strings: lexicographic by code point.
RECURSIVE StrLess(_, _)
StrLess(a, b) ==
    IF b = <<>> THEN FALSE
    ELSE IF a = <<>> THEN TRUE
    ELSE IF a[1] = b[1] THEN StrLess(Tail(a), Tail(b))
    ELSE Ord[a[1]] < Ord[b[1]]

\* s.endswith(suffix)
EndsWith(s, suffix) ==
    /\ Len(s) >= Len(suffix)
    /\ SubSeq(s, Len(s) - Len(suffix) + 1, Len(s)) = suffix

\* s.startswith(prefix)
StartsWith(s, prefix) ==
    /\ Len(s) >= Len(prefix)
    /\ SubSeq(s, 1, Len(prefix)) = prefix

-----------------------------------------------------------------------------
(* pep_parser.py                                                           *)

\* LastComponent taking the first component: split("/")[0].
FirstComponent(file_path) ==
    LET seps == {i \in 1..Len(file_path) : file_path[i] \in {"/", "\\"}}
    IN  IF seps = {} THEN file_path
        ELSE SubSeq(file_path, 1, (CHOOSE i \in seps : \A j \in seps : i <= j) - 1)

\* LastComponent without the replace: only "/" separates.
LastComponentSlashOnly(file_path) ==
    LET seps == {i \in 1..Len(file_path) : file_path[i] = "/"}
        from == IF seps = {} THEN 1
                ELSE 1 + CHOOSE i \in seps : \A j \in seps : j <= i
    IN  SubSeq(file_path, from, Len(file_path))

\* file_path.replace("\\", "/").split("/")[-1]
LastComponent(file_path) ==
    LET seps == {i \in 1..Len(file_path) : file_path[i] \in {"/", "\\"}}
        from == IF seps = {} THEN 1
                ELSE 1 + CHOOSE i \in seps : \A j \in seps : j <= i
    IN  SubSeq(file_path, from, Len(file_path))

\* The end of the greedy digit run (\d+) that starts at position from.
RECURSIVE DigitRunEnd(_, _)
DigitRunEnd(s, from) ==
    IF from + 1 <= Len(s) /\ s[from + 1] \in DigitSet
    THEN DigitRunEnd(s, from + 1)
    ELSE from

\* int(digits)
RECURSIVE IntOf(_)
IntOf(digits) ==
    IF digits = <<>> THEN 0
    ELSE 10 * IntOf(SubSeq(digits, 1, Len(digits) - 1))
         + DigitValue[digits[Len(digits)]]

extract_pep_number(file_path) ==
    IF file_path = <<>> THEN None
    ELSE LET filename == LastComponent(file_path)
         IN  IF /\ Len(filename) >= 5
                /\ ToLower(SubSeq(filename, 1, 4)) = <<"p", "e", "p", "-">>
                /\ filename[5] \in DigitSet
             THEN IntOf(SubSeq(filename, 5, DigitRunEnd(filename, 5)))
             ELSE None


-----------------------------------------------------------------------------
(* String operations of the Python library                                 *)

SetMin(S) == CHOOSE x \in S : \A y \in S : x <= y
SetMax(S) == CHOOSE x \in S : \A y \in S : y <= x

\* str.isspace() on one character; also the regular-expression class \s.
IsSpace(c) == c \in {" ", "\t", "\n"}

\* The regular-expression class \w.
IsWordChar(c) == c \in UpperSet \cup LowerSet \cup DigitSet \cup {"_"}

\* str.strip()
Strip(s) ==
    LET keep == {i \in 1..Len(s) : ~IsSpace(s[i])}
    IN  IF keep = {} THEN <<>> ELSE SubSeq(s, SetMin(keep), SetMax(keep))

\* str.split(c) for a one-character separator: "".split(c) is [""].
RECURSIVE Split(_, _)
Split(s, c) ==
    LET at == {i \in 1..Len(s) : s[i] = c}
    IN  IF at = {} THEN <<s>>
        ELSE <<SubSeq(s, 1, SetMin(at) - 1)>>
             \o Split(SubSeq(s, SetMin(at) + 1, Len(s)), c)

\* sep.join(parts)
RECURSIVE Join(_, _)
Join(parts, sep) ==
    IF parts = <<>> THEN <<>>
    ELSE IF Len(parts) = 1 THEN parts[1]
    ELSE parts[1] \o sep \o Join(Tail(parts), sep)

\* A dict is the sequence of its items in insertion order.
DictHas(d, key) == \E i \in 1..Len(d) : d[i].key = key

\* dict[key], for a key of the dict.
DictAt(d, key) == d[CHOOSE i \in 1..Len(d) : d[i].key = key].value

\* dict[key] = value: a new key goes last, an old one keeps its place.
DictSet(d, key, value) ==
    IF DictHas(d, key)
    THEN [i \in 1..Len(d) |->
            IF d[i].key = key THEN [key |-> key, value |-> value] ELSE d[i]]
    ELSE Append(d, [key |-> key, value |-> value])

\* DictGet with "" as the default: dict.get(key, "").
DictGetEmptyDefault(d, key) == IF DictHas(d, key) THEN DictAt(d, key) ELSE <<>>

\* dict.get(key), for a dict of strings.
DictGet(d, key) == IF DictHas(d, key) THEN DictAt(d, key) ELSE NoneStr

\* defaultdict: dict[key], with the default when the key is new.
DictDefault(d, key, default) == IF DictHas(d, key) THEN DictAt(d, key) ELSE default

\* list(dict): the keys in insertion order.
DictKeys(d) == [i \in 1..Len(d) |-> d[i].key]

\* The truth value of an Optional[str]: None and "" are false.
Truthy(s) == s # NoneStr /\ s # <<>>

-----------------------------------------------------------------------------
(* pep_metadata.py                                                         *)

\* PepMetadata(): every field at its default.
PepMetadata ==
    [title |-> NoneStr, status |-> NoneStr, abstract |-> NoneStr,
     authors |-> <<>>, pep_type |-> NoneStr, created |-> NoneStr]

\* headers[current_key] = " ".join(current_value).strip(), if current_key.
SaveHeader(st) ==
    IF Truthy(st.current_key)
    THEN DictSet(st.headers, st.current_key, Strip(Join(st.current_value, <<" ">>)))
    ELSE st.headers

\* HeaderLine testing only for the colon: a line that begins with whitespace
\* and holds a colon starts a header.
HeaderLineColonFirst(st, line) ==
    IF \E i \in 1..Len(line) : line[i] = ":"
    THEN LET colon == SetMin({i \in 1..Len(line) : line[i] = ":"})
         IN  [headers       |-> SaveHeader(st),
              current_key   |-> ToLower(Strip(SubSeq(line, 1, colon - 1))),
              current_value |-> <<Strip(SubSeq(line, colon + 1, Len(line)))>>]
    ELSE IF IsSpace(line[1]) /\ Truthy(st.current_key)
    THEN [st EXCEPT !.current_value = Append(@, Strip(line))]
    ELSE st

\* HeaderLine forgetting the header in progress at a line it cannot parse.
HeaderLineResetOnSkip(st, line) ==
    IF (\E i \in 1..Len(line) : line[i] = ":") /\ ~IsSpace(line[1])
    THEN LET colon == SetMin({i \in 1..Len(line) : line[i] = ":"})
         IN  [headers       |-> SaveHeader(st),
              current_key   |-> ToLower(Strip(SubSeq(line, 1, colon - 1))),
              current_value |-> <<Strip(SubSeq(line, colon + 1, Len(line)))>>]
    ELSE IF IsSpace(line[1]) /\ Truthy(st.current_key)
    THEN [st EXCEPT !.current_value = Append(@, Strip(line))]
    ELSE [st EXCEPT !.current_key = NoneStr, !.current_value = <<>>]

\* HeaderLine keeping the letter case of the key: key.strip().
HeaderLineCaseSensitive(st, line) ==
    IF (\E i \in 1..Len(line) : line[i] = ":") /\ ~IsSpace(line[1])
    THEN LET colon == SetMin({i \in 1..Len(line) : line[i] = ":"})
         IN  [headers       |-> SaveHeader(st),
              current_key   |-> Strip(SubSeq(line, 1, colon - 1)),
              current_value |-> <<Strip(SubSeq(line, colon + 1, Len(line)))>>]
    ELSE IF IsSpace(line[1]) /\ Truthy(st.current_key)
    THEN [st EXCEPT !.current_value = Append(@, Strip(line))]
    ELSE st

\* One iteration of the loop of _parse_headers over a non-blank line.
HeaderLine(st, line) ==
    IF (\E i \in 1..Len(line) : line[i] = ":") /\ ~IsSpace(line[1])
    THEN LET colon == SetMin({i \in 1..Len(line) : line[i] = ":"})
         IN  [headers       |-> SaveHeader(st),
              current_key   |-> ToLower(Strip(SubSeq(line, 1, colon - 1))),
              current_value |-> <<Strip(SubSeq(line, colon + 1, Len(line)))>>]
    ELSE IF IsSpace(line[1]) /\ Truthy(st.current_key)
    THEN [st EXCEPT !.current_value = Append(@, Strip(line))]
    ELSE st

\* ParseHeadersFrom passing over a blank line: continue where the code breaks.
RECURSIVE ParseHeadersSkipBlank(_, _, _)
ParseHeadersSkipBlank(lines, i, st) ==
    IF i > Len(lines) THEN SaveHeader(st)
    ELSE IF Strip(lines[i]) = <<>> THEN ParseHeadersSkipBlank(lines, i + 1, st)
    ELSE ParseHeadersSkipBlank(lines, i + 1, HeaderLine(st, lines[i]))

\* The loop of _parse_headers from line i on, and the save after it.
RECURSIVE ParseHeadersFrom(_, _, _)
ParseHeadersFrom(lines, i, st) ==
    IF i > Len(lines) THEN SaveHeader(st)
    ELSE IF Strip(lines[i]) = <<>> THEN SaveHeader(st)
    ELSE ParseHeadersFrom(lines, i + 1, HeaderLine(st, lines[i]))

_parse_headers(lines) ==
    ParseHeadersFrom(lines, 1,
        [headers |-> <<>>, current_key |-> NoneStr, current_value |-> <<>>])

_skip_to_body(lines) ==
    LET blank == {i \in 1..Len(lines) : Strip(lines[i]) = <<>>}
    IN  IF blank = {} THEN <<>>
        ELSE SubSeq(lines, SetMin(blank) + 1, Len(lines))

\* re.match(r"^(Abstract|##\s*Abstract)\s*$", stripped, re.IGNORECASE)
IsAbstractMarker(stripped) ==
    LET word == <<"a", "b", "s", "t", "r", "a", "c", "t">>
    IN  \/ ToLower(stripped) = word
        \/ /\ StartsWith(stripped, <<"#", "#">>)
           /\ LET rest == SubSeq(stripped, 3, Len(stripped))
              IN  /\ Len(rest) >= Len(word)
                  /\ ToLower(SubSeq(rest, Len(rest) - Len(word) + 1, Len(rest))) = word
                  /\ \A i \in 1..(Len(rest) - Len(word)) : IsSpace(rest[i])

\* re.match(r"^[=\-]+\s*$", stripped)
IsUnderline(stripped) ==
    /\ stripped # <<>>
    /\ \A i \in 1..Len(stripped) : stripped[i] \in {"=", "-"}

\* re.match(r"^(#{1,6}\s+|[A-Z][\w\s]+)", stripped): a match of a prefix.
IsSectionHeader(stripped) ==
    \/ \E n \in 1..6 :
          /\ Len(stripped) > n
          /\ \A i \in 1..n : stripped[i] = "#"
          /\ IsSpace(stripped[n + 1])
    \/ /\ Len(stripped) >= 2
       /\ stripped[1] \in UpperSet
       /\ IsWordChar(stripped[2]) \/ IsSpace(stripped[2])

_is_paragraph_end(line, collected_lines) ==
    \/ Strip(line) = <<>>
    \/ collected_lines # <<>> /\ IsSectionHeader(Strip(line))

\* The loop of _collect_abstract_lines from line i on.
RECURSIVE CollectFrom(_, _, _, _)
CollectFrom(lines, i, abstract_lines, in_abstract_section) ==
    IF i > Len(lines) THEN abstract_lines
    ELSE LET line == lines[i]
             stripped == Strip(line)
         IN  IF abstract_lines = <<>> /\ stripped = <<>>
             THEN CollectFrom(lines, i + 1, abstract_lines, in_abstract_section)
             ELSE IF IsAbstractMarker(stripped)
             THEN CollectFrom(lines, i + 1, abstract_lines, TRUE)
             ELSE IF IsUnderline(stripped)
             THEN CollectFrom(lines, i + 1, abstract_lines, in_abstract_section)
             ELSE IF \/ in_abstract_section
                     \/ /\ abstract_lines = <<>>
                        /\ ~StartsWith(stripped, <<".", ".", " ">>)
             THEN IF _is_paragraph_end(line, abstract_lines)
                  THEN abstract_lines
                  ELSE CollectFrom(lines, i + 1, Append(abstract_lines, stripped),
                                   in_abstract_section)
             ELSE CollectFrom(lines, i + 1, abstract_lines, in_abstract_section)

_collect_abstract_lines(lines) == CollectFrom(lines, 1, <<>>, FALSE)

\* _extract_abstract without the test for no lines: "" where the code gives None.
ExtractAbstractJoinAlways(lines, headers) ==
    Join(_collect_abstract_lines(_skip_to_body(lines)), <<"\n">>)

_extract_abstract(lines, headers) ==
    LET abstract_lines == _collect_abstract_lines(_skip_to_body(lines))
    IN  IF abstract_lines = <<>> THEN NoneStr
        ELSE Join(abstract_lines, <<"\n">>)

\* [a.strip() for a in author_text.split(",") if a.strip()]
ParseAuthors(author_text) ==
    LET parts == Split(author_text, ",")
        kept == SelectSeq(parts, LAMBDA a : Strip(a) # <<>>)
    IN  [i \in 1..Len(kept) |-> Strip(kept[i])]

extract_pep_metadata(text) ==
    IF Strip(text) = <<>> THEN PepMetadata
    ELSE LET lines == Split(text, "\n")
             headers == _parse_headers(lines)
         IN  [title    |-> DictGet(headers, <<"t", "i", "t", "l", "e">>),
              status   |-> DictGet(headers, <<"s", "t", "a", "t", "u", "s">>),
              abstract |-> _extract_abstract(lines, headers),
              authors  |-> IF DictHas(headers, <<"a", "u", "t", "h", "o", "r">>)
                           THEN ParseAuthors(DictAt(headers, <<"a", "u", "t", "h", "o", "r">>))
                           ELSE <<>>,
              pep_type |-> DictGet(headers, <<"t", "y", "p", "e">>),
              created  |-> DictGet(headers, <<"c", "r", "e", "a", "t", "e", "d">>)]


\* The outcome of Path(repo_path, file_path).read_text(encoding="utf-8"):
\* the text, or the exception raised.
ReadOk(text) == [raised |-> "no", text |-> text]
ReadRaises(exception) == [raised |-> exception, text |-> <<>>]

\* The exceptions read_pep_file catches.
ReadErrors == {"FileNotFoundError", "PermissionError", "UnicodeDecodeError", "OSError"}

\* read_pep_file: the text, or None for each exception caught.  files maps
\* each path under repo_path to the outcome of reading it.
read_pep_file(files, file_path) ==
    IF files[file_path].raised \in ReadErrors THEN NoneStr
    ELSE files[file_path].text

-----------------------------------------------------------------------------
(* aggregator.py                                                           *)

\* sorted(paths), for a set of strings.
RECURSIVE SortedStrings(_)
SortedStrings(paths) ==
    IF paths = {} THEN <<>>
    ELSE LET least == CHOOSE p \in paths : \A q \in paths : q = p \/ StrLess(p, q)
         IN  <<least>> \o SortedStrings(paths \ {least})

\* ReadableWithSuffix testing "content is not None": empty content passes.
NotNoneWithSuffix(repo_files, files, suffix) ==
    SelectSeq(files, LAMBDA file_path :
        /\ EndsWith(file_path, suffix)
        /\ read_pep_file(repo_files, file_path) # NoneStr)

\* The files ending suffix that read_pep_file gives content for, in order.
ReadableWithSuffix(repo_files, files, suffix) ==
    SelectSeq(files, LAMBDA file_path :
        /\ EndsWith(file_path, suffix)
        /\ Truthy(read_pep_file(repo_files, file_path)))

\* An Optional[PepMetadata]: None, or the metadata.
NoMetadata == [is_none |-> TRUE, value |-> PepMetadata]
SomeMetadata(metadata) == [is_none |-> FALSE, value |-> metadata]

\* _extract_metadata_for_pep reading the first readable file, whatever its
\* extension.
ExtractMetadataFirstReadable(repo_files, files) ==
    LET readable == SelectSeq(files, LAMBDA file_path :
                        Truthy(read_pep_file(repo_files, file_path)))
    IN  IF readable # <<>>
        THEN SomeMetadata(extract_pep_metadata(read_pep_file(repo_files, readable[1])))
        ELSE NoMetadata

_extract_metadata_for_pep(repo_files, files) ==
    LET rst == ReadableWithSuffix(repo_files, files, <<".", "r", "s", "t">>)
        md  == ReadableWithSuffix(repo_files, files, <<".", "m", "d">>)
        txt == ReadableWithSuffix(repo_files, files, <<".", "t", "x", "t">>)
        parsed(file_path) ==
            SomeMetadata(extract_pep_metadata(read_pep_file(repo_files, file_path)))
    IN  IF rst # <<>> THEN parsed(rst[1])
        ELSE IF md # <<>> THEN parsed(md[1])
        ELSE IF txt # <<>> THEN parsed(txt[1])
        ELSE NoMetadata

\* AddChangedFile that leaves a deleted file out of pep_files.
AddChangedFileNotDeleted(st, changed_file) ==
    LET number == extract_pep_number(changed_file.path)
    IN  IF number # None
        THEN [pep_numbers_in_commit |-> st.pep_numbers_in_commit \cup {number},
              pep_files |-> DictSet(st.pep_files, number,
                                DictDefault(st.pep_files, number, {})
                                    \cup IF changed_file.change_type = "D" THEN {}
                                         ELSE {changed_file.path})]
        ELSE st

\* AddChangedFile without the test for None: every file is kept.
AddChangedFileUnfiltered(st, changed_file) ==
    LET number == extract_pep_number(changed_file.path)
    IN  [pep_numbers_in_commit |-> st.pep_numbers_in_commit \cup {number},
         pep_files |-> DictSet(st.pep_files, number,
                           DictDefault(st.pep_files, number, {})
                               \cup {changed_file.path})]

\* AddChangedFile with `if pep_number:` for the test: PEP 0 is false.
AddChangedFileTruthy(st, changed_file) ==
    LET number == extract_pep_number(changed_file.path)
    IN  IF number # None /\ number # 0
        THEN [pep_numbers_in_commit |-> st.pep_numbers_in_commit \cup {number},
              pep_files |-> DictSet(st.pep_files, number,
                                DictDefault(st.pep_files, number, {})
                                    \cup {changed_file.path})]
        ELSE st

\* AddChangedFile that adds the path to the files of every PEP the commit has
\* touched so far.
AddChangedFileShared(st, changed_file) ==
    LET number == extract_pep_number(changed_file.path)
        added == DictSet(st.pep_files, number,
                     DictDefault(st.pep_files, number, {}) \cup {changed_file.path})
    IN  IF number # None
        THEN [pep_numbers_in_commit |-> st.pep_numbers_in_commit \cup {number},
              pep_files |-> [i \in 1..Len(added) |->
                  IF added[i].key \in st.pep_numbers_in_commit
                  THEN [key |-> added[i].key,
                        value |-> added[i].value \cup {changed_file.path}]
                  ELSE added[i]]]
        ELSE st

\* The body of the first loop over commit.files, for one changed file.
AddChangedFile(st, changed_file) ==
    LET number == extract_pep_number(changed_file.path)
    IN  IF number # None
        THEN [pep_numbers_in_commit |-> st.pep_numbers_in_commit \cup {number},
              pep_files |-> DictSet(st.pep_files, number,
                                DictDefault(st.pep_files, number, {})
                                    \cup {changed_file.path})]
        ELSE st

\* The first loop over commit.files, from file i on.
RECURSIVE FirstPass(_, _, _)
FirstPass(files, i, st) ==
    IF i > Len(files) THEN st
    ELSE FirstPass(files, i + 1, AddChangedFile(st, files[i]))

\* AddCommitToPep with the message put first: insert(0, message) for append.
AddCommitToPepFirst(acc, number, message) ==
    [acc EXCEPT
        !.pep_commits = DictSet(@, number, DictDefault(@, number, 0) + 1),
        !.pep_messages = DictSet(@, number,
                             <<message>> \o DictDefault(@, number, <<>>))]

\* The body of the second loop, for one PEP number of the commit.
AddCommitToPep(acc, number, message) ==
    [acc EXCEPT
        !.pep_commits = DictSet(@, number, DictDefault(@, number, 0) + 1),
        !.pep_messages = DictSet(@, number,
                             Append(DictDefault(@, number, <<>>), message))]

\* The second loop, over the PEP numbers of the commit in the order given.
RECURSIVE SecondPass(_, _, _, _)
SecondPass(numbers, i, acc, message) ==
    IF i > Len(numbers) THEN acc
    ELSE SecondPass(numbers, i + 1, AddCommitToPep(acc, numbers[i], message), message)

\* Ascending order of a set of ints.
RECURSIVE Ascending(_)
Ascending(numbers) ==
    IF numbers = {} THEN <<>>
    ELSE <<SetMin(numbers)>> \o Ascending(numbers \ {SetMin(numbers)})

\* Iterating a set of ints: Python fixes no order.  iteration is the order in
\* which the interpreter's hash table holds the PEP numbers; a member it does
\* not list comes after those it lists.
SetIteration(numbers, iteration) ==
    SelectSeq(iteration, LAMBDA n : n \in numbers)
        \o Ascending(numbers \ {iteration[i] : i \in 1..Len(iteration)})

\* ProcessCommit with pep_numbers_in_commit a list: one entry per file.
ProcessCommitPerFile(acc, commit, iteration) ==
    LET first == FirstPass(commit.files, 1,
                     [pep_numbers_in_commit |-> {}, pep_files |-> acc.pep_files])
        perFile == SelectSeq([i \in 1..Len(commit.files) |->
                                 extract_pep_number(commit.files[i].path)],
                             LAMBDA n : n # None)
    IN  SecondPass(perFile, 1,
                   [acc EXCEPT !.pep_files = first.pep_files], commit.message)

\* The body of the loop over commits, for one commit.
ProcessCommit(acc, commit, iteration) ==
    LET first == FirstPass(commit.files, 1,
                     [pep_numbers_in_commit |-> {}, pep_files |-> acc.pep_files])
    IN  SecondPass(SetIteration(first.pep_numbers_in_commit, iteration), 1,
                   [acc EXCEPT !.pep_files = first.pep_files], commit.message)

\* The loop over commits, from commit i on.
RECURSIVE ProcessCommits(_, _, _, _)
ProcessCommits(commit_list, i, acc, iteration) ==
    IF i > Len(commit_list) THEN acc
    ELSE ProcessCommits(commit_list, i + 1,
                        ProcessCommit(acc, commit_list[i], iteration), iteration)

\* PepActivity(...) for one key of pep_commits.
MakeActivity(acc, pep_num, path, repo_files) ==
    LET files == SortedStrings(DictAt(acc.pep_files, pep_num))
        metadata == IF Truthy(path) THEN _extract_metadata_for_pep(repo_files, files)
                    ELSE NoMetadata
        found == ~metadata.is_none
    IN  [pep_number      |-> pep_num,
         commit_count    |-> DictAt(acc.pep_commits, pep_num),
         files           |-> files,
         title           |-> IF found THEN metadata.value.title ELSE NoneStr,
         status          |-> IF found THEN metadata.value.status ELSE NoneStr,
         abstract        |-> IF found THEN metadata.value.abstract ELSE NoneStr,
         authors         |-> IF found THEN metadata.value.authors ELSE <<>>,
         pep_type        |-> IF found THEN metadata.value.pep_type ELSE NoneStr,
         created         |-> IF found THEN metadata.value.created ELSE NoneStr,
         commit_messages |-> DictAt(acc.pep_messages, pep_num)]

\* list.sort(key=lambda a: -a.commit_count): the most active PEP first.
RECURSIVE SortByCommitCount(_)
SortByCommitCount(list) ==
    IF list = <<>> THEN <<>>
    ELSE LET rest == SortByCommitCount(SubSeq(list, 1, Len(list) - 1))
             last == list[Len(list)]
             before == SelectSeq(rest, LAMBDA a : a.commit_count >= last.commit_count)
             after == SelectSeq(rest, LAMBDA a : a.commit_count < last.commit_count)
         IN  before \o <<last>> \o after

\* list.sort(key=lambda a: a.pep_number): a stable sort, here by insertion.
RECURSIVE SortByPepNumber(_)
SortByPepNumber(list) ==
    IF list = <<>> THEN <<>>
    ELSE LET rest == SortByPepNumber(SubSeq(list, 1, Len(list) - 1))
             last == list[Len(list)]
             before == SelectSeq(rest, LAMBDA a : a.pep_number <= last.pep_number)
             after == SelectSeq(rest, LAMBDA a : a.pep_number > last.pep_number)
         IN  before \o <<last>> \o after

aggregate_by_pep(commit_list, path, repo_files, iteration) ==
    LET acc == ProcessCommits(commit_list, 1,
                   [pep_commits |-> <<>>, pep_files |-> <<>>, pep_messages |-> <<>>],
                   iteration)
        keys == DictKeys(acc.pep_commits)
    IN  SortByPepNumber(
            [i \in 1..Len(keys) |-> MakeActivity(acc, keys[i], path, repo_files)])


-----------------------------------------------------------------------------
(* signals.py                                                              *)

PepSignal(number, signal_type, description, signal_value) ==
    [pep_number |-> number, signal_type |-> signal_type,
     description |-> description, signal_value |-> signal_value]

\* Whether the literal lies in text at position i; letters compared through
\* lower() under re.IGNORECASE.
LiteralAt(text, i, literal, ignorecase) ==
    /\ i >= 1
    /\ i + Len(literal) - 1 <= Len(text)
    /\ LET found == SubSeq(text, i, i + Len(literal) - 1)
       IN  IF ignorecase THEN ToLower(found) = ToLower(literal) ELSE found = literal

\* \b before position i (i = Len(text) + 1: at the end): a word character on
\* exactly one side.
WordBoundary(text, i) ==
    (i > 1 /\ IsWordChar(text[i - 1])) # (i <= Len(text) /\ IsWordChar(text[i]))

\* re.search(r"\b<literal>\b", text, flags)
SearchWord(text, literal, ignorecase) ==
    \E i \in 1..Len(text) :
        /\ LiteralAt(text, i, literal, ignorecase)
        /\ WordBoundary(text, i)
        /\ WordBoundary(text, i + Len(literal))

\* re.search(r"status:\s*<word>", text, re.IGNORECASE)
SearchStatus(text, word) ==
    LET status == <<"s", "t", "a", "t", "u", "s", ":">>
    IN  \E i \in 1..Len(text) :
            /\ LiteralAt(text, i, status, TRUE)
            /\ \E j \in (i + Len(status))..Len(text) :
                  /\ \A k \in (i + Len(status))..(j - 1) : IsSpace(text[k])
                  /\ LiteralAt(text, j, word, TRUE)

status_patterns ==
    << [pattern |-> <<"a", "c", "c", "e", "p", "t", "e", "d">>,
        signal_type |-> "status_accepted", description |-> "Status: Accepted"],
       [pattern |-> <<"f", "i", "n", "a", "l">>,
        signal_type |-> "status_final", description |-> "Status: Final"],
       [pattern |-> <<"w", "i", "t", "h", "d", "r", "a", "w", "n">>,
        signal_type |-> "status_withdrawn", description |-> "Status: Withdrawn"] >>

\* The loop over status_patterns, from pattern i on: one signal per match.
RECURSIVE StatusSignals(_, _, _)
StatusSignals(text, number, i) ==
    IF i > Len(status_patterns) THEN <<>>
    ELSE (IF SearchStatus(text, status_patterns[i].pattern)
          THEN <<PepSignal(number, status_patterns[i].signal_type,
                           status_patterns[i].description, 100)>>
          ELSE <<>>)
         \o StatusSignals(text, number, i + 1)

deprecation_patterns ==
    << <<"d", "e", "p", "r", "e", "c", "a", "t", "e", "d">>,
       <<"r", "e", "m", "o", "v", "e", "d">>,
       <<"n", "o", " ", "l", "o", "n", "g", "e", "r">> >>

DeprecationSignal(number) ==
    PepSignal(number, "deprecation", "Contains deprecation or removal language", 50)

\* The deprecation loop without its break: one signal per matching pattern.
RECURSIVE DeprecationSignalsNoBreak(_, _, _)
DeprecationSignalsNoBreak(text, number, i) ==
    IF i > Len(deprecation_patterns) THEN <<>>
    ELSE (IF SearchWord(text, deprecation_patterns[i], TRUE)
          THEN <<DeprecationSignal(number)>>
          ELSE <<>>)
         \o DeprecationSignalsNoBreak(text, number, i + 1)

\* The loop over deprecation_patterns, from pattern i on: it ends at the
\* first match.
RECURSIVE DeprecationSignals(_, _, _)
DeprecationSignals(text, number, i) ==
    IF i > Len(deprecation_patterns) THEN <<>>
    ELSE IF SearchWord(text, deprecation_patterns[i], TRUE)
    THEN <<DeprecationSignal(number)>>
    ELSE DeprecationSignals(text, number, i + 1)

normative_patterns ==
    << <<"M", "U", "S", "T">>,
       <<"M", "U", "S", "T", " ", "N", "O", "T">>,
       <<"S", "H", "O", "U", "L", "D">>,
       <<"S", "H", "O", "U", "L", "D", " ", "N", "O", "T">>,
       <<"R", "E", "Q", "U", "I", "R", "E", "D">>,
       <<"S", "H", "A", "L", "L">>,
       <<"S", "H", "A", "L", "L", " ", "N", "O", "T">> >>

NormativeSignal(number) ==
    PepSignal(number, "normative_language",
              "Contains normative language (RFC 2119 keywords)", 50)

\* The normative loop searching with re.IGNORECASE, as the deprecation loop does.
RECURSIVE NormativeSignalsIgnoreCase(_, _, _)
NormativeSignalsIgnoreCase(text, number, i) ==
    IF i > Len(normative_patterns) THEN <<>>
    ELSE IF SearchWord(text, normative_patterns[i], TRUE)
    THEN <<NormativeSignal(number)>>
    ELSE NormativeSignalsIgnoreCase(text, number, i + 1)

\* The loop over normative_patterns, from pattern i on: case-sensitive, it
\* ends at the first match.
RECURSIVE NormativeSignals(_, _, _)
NormativeSignals(text, number, i) ==
    IF i > Len(normative_patterns) THEN <<>>
    ELSE IF SearchWord(text, normative_patterns[i], FALSE)
    THEN <<NormativeSignal(number)>>
    ELSE NormativeSignals(text, number, i + 1)

detect_signals(text, number) ==
    StatusSignals(text, number, 1)
        \o DeprecationSignals(text, number, 1)
        \o NormativeSignals(text, number, 1)

-----------------------------------------------------------------------------
(* formatters.py                                                           *)

\* The characters outside ASCII that the text format uses, each one element
\* of a string: U+2014 EM DASH and U+2B50 WHITE MEDIUM STAR.
EmDash == "U+2014"
Star == "U+2B50"

\* str(n) for an int.
RECURSIVE IntToStr(_)
IntToStr(n) ==
    IF n < 0 THEN <<"-">> \o IntToStr(0 - n)
    ELSE IF n < 10 THEN <<Digits[n + 1]>>
    ELSE IntToStr(n \div 10) \o <<Digits[(n % 10) + 1]>>

\* f"{n:04d}": zeros in front up to four characters, the sign first.
RECURSIVE ZeroPad4(_)
ZeroPad4(str) ==
    IF Len(str) >= 4 THEN str
    ELSE IF str # <<>> /\ str[1] = "-"
    THEN <<"-">> \o ZeroPad4(<<"0">> \o Tail(str))
    ELSE ZeroPad4(<<"0">> \o str)

_format_activity_header(activity) ==
    LET with_title ==
            <<"P", "E", "P", " ">> \o IntToStr(activity.pep_number)
            \o (IF Truthy(activity.title)
                THEN <<" ", EmDash, " ">> \o activity.title ELSE <<>>)
        with_status ==
            with_title
            \o (IF Truthy(activity.status)
                THEN <<" ", "(">> \o activity.status \o <<")">> ELSE <<>>)
        commit_word == IF activity.commit_count = 1 THEN <<"c", "o", "m", "m", "i", "t">> ELSE <<"c", "o", "m", "m", "i", "t", "s">>
    IN  with_status \o <<" ", "[">> \o IntToStr(activity.commit_count)
        \o <<" ">> \o commit_word \o <<"]">>

\* The sort key (-s.signal_value, s.signal_type): whether a goes before b.
SignalKeyLess(a, b) ==
    \/ a.signal_value > b.signal_value
    \/ a.signal_value = b.signal_value /\ StrLess(a.signal_type, b.signal_type)

\* sorted(pep_signals, key=lambda s: -s.signal_value): by value alone.
RECURSIVE SortedSignalsByValue(_)
SortedSignalsByValue(pep_signals) ==
    IF pep_signals = <<>> THEN <<>>
    ELSE LET rest == SortedSignalsByValue(SubSeq(pep_signals, 1, Len(pep_signals) - 1))
             last == pep_signals[Len(pep_signals)]
             before == SelectSeq(rest, LAMBDA s : s.signal_value >= last.signal_value)
             after == SelectSeq(rest, LAMBDA s : s.signal_value < last.signal_value)
         IN  before \o <<last>> \o after

\* sorted(pep_signals, key=lambda s: (-s.signal_value, s.signal_type)): a
\* stable sort, signals with equal keys stay in input order.
RECURSIVE SortedSignals(_)
SortedSignals(pep_signals) ==
    IF pep_signals = <<>> THEN <<>>
    ELSE LET rest == SortedSignals(SubSeq(pep_signals, 1, Len(pep_signals) - 1))
             last == pep_signals[Len(pep_signals)]
             before == SelectSeq(rest, LAMBDA s : ~SignalKeyLess(last, s))
             after == SelectSeq(rest, LAMBDA s : SignalKeyLess(last, s))
         IN  before \o <<last>> \o after

\* One line of _format_activity_signals.
SignalLine(signal) ==
    <<" ", " ", " ", " ", "-", " ", "[">> \o IntToStr(signal.signal_value) \o <<"]", " ">>
    \o signal.description
    \o (IF signal.signal_value = 100 THEN <<" ", Star>> ELSE <<>>)

_format_activity_signals(pep_signals) ==
    IF pep_signals = <<>> THEN <<>>
    ELSE LET sorted_signals == SortedSignals(pep_signals)
         IN  <<<<" ", " ", "S", "i", "g", "n", "a", "l", "s", ":">>>>
             \o [i \in 1..Len(sorted_signals) |-> SignalLine(sorted_signals[i])]

\* The loop that groups the signals by PEP number, from signal i on.
RECURSIVE GroupSignals(_, _, _)
GroupSignals(signal_list, i, signals_by_pep) ==
    IF i > Len(signal_list) THEN signals_by_pep
    ELSE LET signal == signal_list[i]
         IN  GroupSignals(signal_list, i + 1,
                 DictSet(signals_by_pep, signal.pep_number,
                     Append(DictDefault(signals_by_pep, signal.pep_number, <<>>),
                            signal)))

\* The lines that show the abstract.
AbstractLines(abstract) ==
    IF ~Truthy(abstract) THEN <<>>
    ELSE LET abstract_lines == Split(abstract, "\n")
             display_lines == IF Len(abstract_lines) > 8
                              THEN SubSeq(abstract_lines, 1, 8) \o <<<<".", ".", ".">>>>
                              ELSE abstract_lines
         IN  [i \in 1..Len(display_lines) |->
                 (IF i = 1 THEN <<" ", " ", "A", "b", "s", "t", "r", "a", "c", "t", ":", " ">> ELSE <<" ", " ", " ", " ", " ", " ", " ", " ", " ", " ", " ", " ">>) \o display_lines[i]]

_format_single_activity_text(activity, signals_by_pep) ==
    <<_format_activity_header(activity)>>
    \o <<<<" ", " ", "h", "t", "t", "p", "s", ":", "/", "/", "p", "e", "p", "s", ".", "p", "y", "t", "h", "o", "n", ".", "o", "r", "g", "/", "p", "e", "p", "-">> \o ZeroPad4(IntToStr(activity.pep_number)) \o <<"/">> >>
    \o AbstractLines(activity.abstract)
    \o (IF activity.files # <<>>
        THEN <<<<" ", " ", "F", "i", "l", "e", "s", ":", " ">> \o Join(activity.files, <<",", " ">>)>> ELSE <<>>)
    \o (IF activity.commit_messages # <<>>
        THEN <<<<" ", " ", "C", "o", "m", "m", "i", "t", "s", ":">>>>
             \o [i \in 1..Len(activity.commit_messages) |->
                    <<" ", " ", " ", " ", "-", " ">> \o activity.commit_messages[i]]
        ELSE <<>>)
    \o _format_activity_signals(DictDefault(signals_by_pep, activity.pep_number, <<>>))
    \o << <<>> >>

\* The lines of every activity, from activity i on.
RECURSIVE AllLines(_, _, _)
AllLines(activity_list, i, signals_by_pep) ==
    IF i > Len(activity_list) THEN <<>>
    ELSE _format_single_activity_text(activity_list[i], signals_by_pep)
         \o AllLines(activity_list, i + 1, signals_by_pep)

format_as_text(activity_list, signal_list) ==
    IF activity_list = <<>>
    THEN <<"N", "o", " ", "P", "E", "P", " ", "c", "h", "a", "n", "g", "e", "s", " ", "f", "o", "u", "n", "d", " ", "i", "n", " ", "t", "h", "e", " ", "s", "p", "e", "c", "i", "f", "i", "e", "d", " ", "t", "i", "m", "e", " ", "p", "e", "r", "i", "o", "d", ".", "\n">>
    ELSE Join(AllLines(activity_list, 1, GroupSignals(signal_list, 1, <<>>)), <<"\n">>)

\* json.dumps of an Optional[str]: null for None.
JsonNull == "null"
JsonOptional(value) == IF value = NoneStr THEN JsonNull ELSE value

\* One entry of the "signals" array.
JsonSignal(signal) ==
    << [key |-> "type", value |-> signal.signal_type],
       [key |-> "description", value |-> signal.description],
       [key |-> "signal_value", value |-> signal.signal_value] >>

\* pep_data: the members in the order the dict literal gives them.
PepData(activity, signals_by_pep) ==
    LET pep_signals == DictDefault(signals_by_pep, activity.pep_number, <<>>)
        sorted_signals == SortedSignals(pep_signals)
    IN  << [key |-> "pep_number", value |-> activity.pep_number],
           [key |-> "title", value |-> JsonOptional(activity.title)],
           [key |-> "status", value |-> JsonOptional(activity.status)],
           [key |-> "abstract", value |-> JsonOptional(activity.abstract)],
           [key |-> "authors", value |-> activity.authors],
           [key |-> "pep_type", value |-> JsonOptional(activity.pep_type)],
           [key |-> "created", value |-> JsonOptional(activity.created)],
           [key |-> "commit_count", value |-> activity.commit_count],
           [key |-> "commit_messages", value |-> activity.commit_messages],
           [key |-> "files", value |-> activity.files],
           [key |-> "signals",
            value |-> [i \in 1..Len(sorted_signals) |-> JsonSignal(sorted_signals[i])]] >>

\* format_as_json were it to sort the activities by PEP number.
FormatAsJsonSorted(activity_list, signal_list) ==
    LET signals_by_pep == GroupSignals(signal_list, 1, <<>>)
        sorted_list == SortByPepNumber(activity_list)
    IN  [i \in 1..Len(sorted_list) |-> PepData(sorted_list[i], signals_by_pep)]

\* The value format_as_json hands to json.dumps: an array of objects, an
\* object being the sequence of its members.
format_as_json(activity_list, signal_list) ==
    LET signals_by_pep == GroupSignals(signal_list, 1, <<>>)
    IN  [i \in 1..Len(activity_list) |-> PepData(activity_list[i], signals_by_pep)]

-----------------------------------------------------------------------------
(* The inputs of the aggregation                                           *)

\* The longest sequence of commits handed to aggregate_by_pep.
MaxCommits == 3

pep_0001_rst == <<"p", "e", "p", "-", "0", "0", "0", "1", ".", "r", "s", "t">>
peps_pep_1_md == <<"p", "e", "p", "s", "/", "p", "e", "p", "-", "1", ".", "m", "d">>
pep_0002_rst == <<"p", "e", "p", "-", "0", "0", "0", "2", ".", "r", "s", "t">>
pep_0000_rst == <<"p", "e", "p", "-", "0", "0", "0", "0", ".", "r", "s", "t">>
README_md == <<"R", "E", "A", "D", "M", "E", ".", "m", "d">>

ChangedFile(path, change_type) == [path |-> path, change_type |-> change_type]

CommitRecord(hash, timestamp, message, files) ==
    [hash |-> hash, timestamp |-> timestamp, message |-> message, files |-> files]

\* The file lists of the commits: none, one file, two files of one PEP (the
\* greater path first), two PEPs (the greater number first) with a file of no
\* PEP between them, only a file of no PEP, PEP 0, a deletion.
FileLists ==
    { <<>>,
      <<ChangedFile(pep_0001_rst, "M")>>,
      <<ChangedFile(peps_pep_1_md, "A"), ChangedFile(pep_0001_rst, "D")>>,
      <<ChangedFile(pep_0002_rst, "M"), ChangedFile(README_md, "M"),
        ChangedFile(pep_0001_rst, "A")>>,
      <<ChangedFile(README_md, "A")>>,
      <<ChangedFile(pep_0000_rst, "A")>>,
      <<ChangedFile(pep_0002_rst, "D")>> }

Messages == {"Update", "Fix typo"}

CommitPool ==
    {CommitRecord("abc123", "2024-01-15", message, files) :
        message \in Messages, files \in FileLists}

\* The sequences over S of length at most n.
SeqsUpTo(S, n) == UNION {[1..k -> S] : k \in 0..n}

\* The paths of a list of changed files.
PathsOf(files) == {files[i].path : i \in 1..Len(files)}

\* The PEP numbers the files of the commits map to.
NumbersIn(commit_list) ==
    {extract_pep_number(path) :
        path \in UNION {PathsOf(commit_list[i].files) : i \in 1..Len(commit_list)}}
        \ {None}

\* The orders in which the interpreter may iterate sets of these PEP numbers.
Iterations(numbers) ==
    {order \in [1..Cardinality(numbers) -> numbers] :
        \A i, j \in 1..Cardinality(numbers) : order[i] = order[j] => i = j}

\* No file can be read: every read raises FileNotFoundError.
EmptyRepo(paths) == [path \in paths |-> ReadRaises("FileNotFoundError")]

-----------------------------------------------------------------------------
(* aggregate_by_pep(commits): a sequence of commits is aggregated           *)

\* The identifier extractor at rest.
NoParserCall ==
    /\ parsed_path = <<>>
    /\ prefixed_path = <<>>
    /\ parsed_number = None
    /\ prefixed_number = None

\* The metadata parser at rest.
NoMetadataCall ==
    /\ pep_text = <<>>
    /\ pep_headers = <<>>
    /\ pep_metadata = PepMetadata

\* The formatters at rest.
NoFormatCall ==
    /\ text_output = <<>>
    /\ json_output = <<>>

\* The git adapter at rest.
NoGitCall ==
    /\ git_run = "None"
    /\ git_output = <<>>
    /\ git_returned = <<>>

\* The signal detector at rest.
NoSignalCall ==
    /\ content = <<>>
    /\ pep_number = 0
    /\ signals = <<>>

Init ==
    /\ commits \in SeqsUpTo(CommitPool, MaxCommits)
    /\ repo_path = NoneStr
    /\ repo = EmptyRepo(UNION {PathsOf(files) : files \in FileLists})
    /\ activities = <<>>
    /\ NoSignalCall
    /\ NoParserCall /\ NoMetadataCall /\ NoFormatCall /\ NoGitCall
    /\ pc = "call"

\* activities = aggregate_by_pep(commits, repo_path)
Aggregate ==
    /\ pc = "call"
    /\ \E iteration \in Iterations(NumbersIn(commits)) :
          activities' = aggregate_by_pep(commits, repo_path, repo, iteration)
    /\ pc' = "done"
    /\ UNCHANGED <<commits, repo_path, repo, content, pep_number, signals,
                   parser_vars, metadata_vars, format_vars, git_vars>>

Next == Aggregate

Spec == Init /\ [][Next]_vars


-----------------------------------------------------------------------------
(* Properties of the aggregation                                           *)

\* The PEP numbers the files of a commit map to.
NumbersOf(commit) ==
    {extract_pep_number(path) : path \in PathsOf(commit.files)} \ {None}

\* The commits of the input that hold a file mapping to number, in input order.
CommitsOf(number) == SelectSeq(commits, LAMBDA commit : number \in NumbersOf(commit))

\* Every changed path of the input that maps to number.
ChangedPathsOf(number) ==
    {path \in UNION {PathsOf(commits[i].files) : i \in 1..Len(commits)} :
        extract_pep_number(path) = number}

\* The PEP numbers some commit of the input touches.
TouchedNumbers == UNION {NumbersOf(commits[i]) : i \in 1..Len(commits)}

\* The number of changed files of the input that map to number.
RECURSIVE FileChangesFrom(_, _)
FileChangesFrom(number, i) ==
    IF i > Len(commits) THEN 0
    ELSE Cardinality({j \in 1..Len(commits[i].files) :
                         extract_pep_number(commits[i].files[j].path) = number})
         + FileChangesFrom(number, i + 1)

RECURSIVE SumOver(_, _)
SumOver(numbers, i) == IF i > Len(numbers) THEN 0 ELSE numbers[i] + SumOver(numbers, i + 1)

Returned == pc = "done"

\* C1: each activity's commit_count is the number of input commits that hold
\* at least one file mapping to its pep_number; a commit with several files of
\* one PEP counts once.
C1_CommitCountPerCommit ==
    Returned =>
        \A i \in 1..Len(activities) :
            activities[i].commit_count = Len(CommitsOf(activities[i].pep_number))

\* A PEP counted in two commits, one of them with two files of that PEP.
C1_Witness ==
    /\ Returned
    /\ \E i \in 1..Len(activities) :
          /\ activities[i].commit_count = 2
          /\ FileChangesFrom(activities[i].pep_number, 1) = 3

\* C2: each activity's files are exactly the changed paths, of any change
\* type, that map to its pep_number, without duplicates, in ascending order.
C2_FilesSortedUnion ==
    Returned =>
        \A i \in 1..Len(activities) :
            LET files == activities[i].files
            IN  /\ {files[j] : j \in 1..Len(files)}
                       = ChangedPathsOf(activities[i].pep_number)
                /\ \A j, k \in 1..Len(files) : j < k => StrLess(files[j], files[k])

\* Two files of one PEP, the greater path changed first and the other deleted.
C2_Witness ==
    /\ Returned
    /\ Len(commits) >= 1
    /\ commits[1].files =
           <<ChangedFile(peps_pep_1_md, "A"), ChangedFile(pep_0001_rst, "D")>>
    /\ \E i \in 1..Len(activities) :
          activities[i].files = <<pep_0001_rst, peps_pep_1_md>>

\* C3: each activity's commit_messages are the messages of the commits that
\* touch its pep_number, in input order, one per commit.
C3_MessagesInOrder ==
    Returned =>
        \A i \in 1..Len(activities) :
            LET touching == CommitsOf(activities[i].pep_number)
            IN  activities[i].commit_messages
                    = [j \in 1..Len(touching) |-> touching[j].message]

\* Two commits with different messages touch a PEP, the first with two files.
C3_Witness ==
    /\ Returned
    /\ \E i \in 1..Len(activities) :
          /\ activities[i].commit_messages = <<"Update", "Fix typo">>
          /\ FileChangesFrom(activities[i].pep_number, 1) = 3

\* C4: the result is strictly ascending by pep_number and holds one activity
\* for each PEP number touched by some commit, and no other.
C4_AscendingOnePerPep ==
    Returned =>
        /\ \A i, j \in 1..Len(activities) :
              i < j => activities[i].pep_number < activities[j].pep_number
        /\ {activities[i].pep_number : i \in 1..Len(activities)} = TouchedNumbers

\* The greater PEP number is touched first and by more commits.
C4_Witness ==
    /\ Returned
    /\ Len(activities) = 2
    /\ Len(commits) = 2
    /\ NumbersOf(commits[1]) = {activities[2].pep_number}
    /\ activities[2].commit_count > activities[1].commit_count

\* C5: no path of an activity maps to no PEP; files of no PEP add nothing to
\* the counts and messages; if no file maps to a PEP the result is empty.
C5_NonPepFilesDropped ==
    Returned =>
        LET perCommit == [i \in 1..Len(commits) |-> Cardinality(NumbersOf(commits[i]))]
        IN  /\ \A i \in 1..Len(activities) :
                  \A j \in 1..Len(activities[i].files) :
                      extract_pep_number(activities[i].files[j]) # None
            /\ SumOver([i \in 1..Len(activities) |-> activities[i].commit_count], 1)
                   = SumOver(perCommit, 1)
            /\ SumOver([i \in 1..Len(activities) |->
                           Len(activities[i].commit_messages)], 1)
                   = SumOver(perCommit, 1)
            /\ TouchedNumbers = {} => activities = <<>>

\* A commit of one file of no PEP, then a commit mixing PEP files with one.
C5_Witness ==
    /\ Returned
    /\ Len(commits) = 2
    /\ PathsOf(commits[1].files) = {README_md}
    /\ README_md \in PathsOf(commits[2].files)
    /\ Len(activities) = 2


-----------------------------------------------------------------------------
(* detect_signals(content, pep_number): a text is searched for signals       *)

\* The most fragments a content is put together from.
MaxFragments == 3

\* The pieces of a content: the words the patterns look for in several letter
\* cases, words that are part of a pattern, a header key, and separators.
\* Joined without a separator they give words that merely contain a keyword.
Fragments ==
    { <<"d", "e", "p", "r", "e", "c", "a", "t", "e", "d">>,
      <<"R", "E", "M", "O", "V", "E", "D">>,
      <<"n", "o">>,
      <<"l", "o", "n", "g", "e", "r">>,
      <<"M", "U", "S", "T">>,
      <<"m", "u", "s", "t">>,
      <<"S", "h", "a", "l", "l">>,
      <<"S", "H", "O", "U", "L", "D">>,
      <<"N", "O", "T">>,
      <<"S", "t", "a", "t", "u", "s", ":">>,
      <<"F", "i", "n", "a", "l">>,
      <<" ">>,
      <<"\n">> }

\* "".join(fragments)
RECURSIVE Concat(_)
Concat(fragments) ==
    IF fragments = <<>> THEN <<>> ELSE fragments[1] \o Concat(Tail(fragments))

Contents == {Concat(fragments) : fragments \in SeqsUpTo(Fragments, MaxFragments)}

PepNumbers == {1, 815}

\* The aggregator at rest.
NoAggregateCall ==
    /\ commits = <<>>
    /\ repo_path = NoneStr
    /\ repo = EmptyRepo({})
    /\ activities = <<>>

InitSignals ==
    /\ content \in Contents
    /\ pep_number \in PepNumbers
    /\ signals = <<>>
    /\ NoAggregateCall
    /\ NoParserCall /\ NoMetadataCall /\ NoFormatCall /\ NoGitCall
    /\ pc = "call"

\* signals = detect_signals(content, pep_number)
DetectSignals ==
    /\ pc = "call"
    /\ signals' = detect_signals(content, pep_number)
    /\ pc' = "done"
    /\ UNCHANGED <<commits, repo_path, repo, activities, content, pep_number,
                   parser_vars, metadata_vars, format_vars, git_vars>>

NextSignals == DetectSignals

SpecSignals == InitSignals /\ [][NextSignals]_vars

\* The text cut into its words (the longest runs of \w characters) and the
\* single characters between them.
RECURSIVE Tokens(_)
Tokens(text) ==
    IF text = <<>> THEN <<>>
    ELSE IF ~IsWordChar(text[1]) THEN <<SubSeq(text, 1, 1)>> \o Tokens(Tail(text))
    ELSE LET stops == {i \in 1..Len(text) : ~IsWordChar(text[i])}
             n == IF stops = {} THEN Len(text) ELSE SetMin(stops) - 1
         IN  <<SubSeq(text, 1, n)>> \o Tokens(SubSeq(text, n + 1, Len(text)))

\* Whether the tokens of the text hold the phrase, a list of tokens, in a row.
HasPhrase(text, phrase, anyCase) ==
    LET tokens == Tokens(text)
    IN  \E i \in 1..Len(tokens) :
            /\ i + Len(phrase) - 1 <= Len(tokens)
            /\ \A j \in 1..Len(phrase) :
                  IF anyCase THEN ToLower(tokens[i + j - 1]) = phrase[j]
                  ELSE tokens[i + j - 1] = phrase[j]

SignalsOfType(type) == SelectSeq(signals, LAMBDA signal : signal.signal_type = type)

\* C8: detect_signals returns no signal of kind status_accepted, status_final
\* or status_withdrawn, whatever the content.
C8_NoStatusSignals ==
    Returned =>
        \A i \in 1..Len(signals) :
            signals[i].signal_type
                \notin {"status_accepted", "status_final", "status_withdrawn"}

\* C9: there is one deprecation signal, of weight 50 and of the given
\* pep_number, if the content holds the word deprecated or removed or the
\* words "no longer" in any letter case, and none otherwise.
C9_OneDeprecationSignal ==
    Returned =>
        LET worded ==
                \/ HasPhrase(content, << <<"d", "e", "p", "r", "e", "c", "a", "t", "e", "d">> >>, TRUE)
                \/ HasPhrase(content, << <<"r", "e", "m", "o", "v", "e", "d">> >>, TRUE)
                \/ HasPhrase(content, << <<"n", "o">>, <<" ">>, <<"l", "o", "n", "g", "e", "r">> >>, TRUE)
        IN  SignalsOfType("deprecation")
                = IF worded THEN <<DeprecationSignal(pep_number)>> ELSE <<>>

\* Two of the patterns occur, one of them in upper case.
C9_Witness ==
    /\ Returned
    /\ content = Concat(<< <<"d", "e", "p", "r", "e", "c", "a", "t", "e", "d">>, <<" ">>,
                           <<"R", "E", "M", "O", "V", "E", "D">> >>)
    /\ Len(SignalsOfType("deprecation")) = 1
    /\ signals[1].signal_value = 50

\* C10: there is one normative_language signal, of weight 50, if the content
\* holds MUST, MUST NOT, SHOULD, SHOULD NOT, REQUIRED, SHALL or SHALL NOT as
\* whole upper-case words, and none otherwise.
C10_OneNormativeSignal ==
    Returned =>
        LET must == <<"M", "U", "S", "T">>
            should == <<"S", "H", "O", "U", "L", "D">>
            shall == <<"S", "H", "A", "L", "L">>
            not == <<"N", "O", "T">>
            worded ==
                \/ HasPhrase(content, <<must>>, FALSE)
                \/ HasPhrase(content, <<must, <<" ">>, not>>, FALSE)
                \/ HasPhrase(content, <<should>>, FALSE)
                \/ HasPhrase(content, <<should, <<" ">>, not>>, FALSE)
                \/ HasPhrase(content, << <<"R", "E", "Q", "U", "I", "R", "E", "D">> >>, FALSE)
                \/ HasPhrase(content, <<shall>>, FALSE)
                \/ HasPhrase(content, <<shall, <<" ">>, not>>, FALSE)
        IN  SignalsOfType("normative_language")
                = IF worded THEN <<NormativeSignal(pep_number)>> ELSE <<>>

\* Two keywords occur, MUST and SHOULD.
C10_Witness ==
    /\ Returned
    /\ content = <<"M", "U", "S", "T", " ", "S", "H", "O", "U", "L", "D">>
    /\ signals = <<NormativeSignal(pep_number)>>
    /\ signals[1].signal_value = 50


-----------------------------------------------------------------------------
(* aggregate_by_pep(commits, repo_path): metadata is read from the files     *)

pep_9_rst ==
    <<"p", "e", "p", "-", "9", ".", "r", "s", "t">>

pep_9_a_rst ==
    <<"p", "e", "p", "-", "9", "-", "a", ".", "r", "s", "t">>

pep_9_md ==
    <<"p", "e", "p", "-", "9", ".", "m", "d">>

pep_9_txt ==
    <<"p", "e", "p", "-", "9", ".", "t", "x", "t">>

pep_9_examples_py ==
    <<"p", "e", "p", "-", "9", "-", "e", "x", "a", "m", "p", "l", "e", "s",
    ".", "p", "y">>

rst_text ==
    <<"T", "i", "t", "l", "e", ":", " ", "R", "S", "T", " ", "V", "e", "r",
    "s", "i", "o", "n", "\n", "A", "u", "t", "h", "o", "r", ":", " ", "A",
    ",", " ", "B", "\n", "S", "t", "a", "t", "u", "s", ":", " ", "D", "r",
    "a", "f", "t", "\n", "T", "y", "p", "e", ":", " ", "P", "r", "o", "c",
    "e", "s", "s", "\n", "C", "r", "e", "a", "t", "e", "d", ":", " ", "2",
    "0", "2", "4", "\n", "\n", "R", "S", "T", " ", "a", "b", "s", "t", "r",
    "a", "c", "t", ".">>

a_rst_text ==
    <<"T", "i", "t", "l", "e", ":", " ", "A", "p", "p", "e", "n", "d", "i",
    "x", "\n", "\n", "M", "o", "r", "e", ".">>

md_text ==
    <<"T", "i", "t", "l", "e", ":", " ", "M", "D", " ", "V", "e", "r", "s",
    "i", "o", "n", "\n", "S", "t", "a", "t", "u", "s", ":", " ", "D", "r",
    "a", "f", "t", "\n", "\n", "M", "D", " ", "a", "b", "s", "t", "r", "a",
    "c", "t", ".">>

txt_text ==
    <<"T", "i", "t", "l", "e", ":", " ", "T", "X", "T", " ", "V", "e", "r",
    "s", "i", "o", "n", "\n">>

py_text ==
    <<"T", "i", "t", "l", "e", ":", " ", "E", "x", "a", "m", "p", "l", "e",
    "\n", "\n", "p", "r", "i", "n", "t">>

pep_1_text ==
    <<"T", "i", "t", "l", "e", ":", " ", "O", "n", "e", "\n">>

repo_dir ==
    <<"/", "p", "e", "p", "s">>

\* The file lists of the commits: both formats of PEP 9 (the .md first), the
\* .txt with an example script and a second .rst, and PEP 1 with the .md.
MetadataFileLists ==
    { <<ChangedFile(pep_9_md, "A"), ChangedFile(pep_9_rst, "M")>>,
      <<ChangedFile(pep_9_txt, "M"), ChangedFile(pep_9_examples_py, "M"),
        ChangedFile(pep_9_a_rst, "M")>>,
      <<ChangedFile(pep_0001_rst, "M"), ChangedFile(pep_9_md, "M")>> }

MetadataCommitPool ==
    {CommitRecord("abc123", "2024-01-15", "Update", files) : files \in MetadataFileLists}

\* The repositories: each file either raises on reading (each of the four
\* exceptions on some file), or is empty, or holds its text; the .md may
\* hold only whitespace.
Repos ==
    { (pep_9_rst :> rst) @@ (pep_9_a_rst :> a_rst) @@ (pep_9_md :> md)
          @@ (pep_9_txt :> txt) @@ (pep_9_examples_py :> ReadOk(py_text))
          @@ (pep_0001_rst :> one) :
        rst \in {ReadRaises("FileNotFoundError"), ReadOk(<<>>), ReadOk(rst_text)},
        a_rst \in {ReadRaises("OSError"), ReadOk(<<>>), ReadOk(a_rst_text)},
        md \in {ReadRaises("UnicodeDecodeError"), ReadOk(<<>>), ReadOk(<<" ", "\n">>),
                ReadOk(md_text)},
        txt \in {ReadRaises("PermissionError"), ReadOk(<<>>), ReadOk(txt_text)},
        one \in {ReadRaises("PermissionError"), ReadOk(pep_1_text)} }

\* Every file holds its text.
FullRepo ==
    (pep_9_rst :> ReadOk(rst_text)) @@ (pep_9_a_rst :> ReadOk(a_rst_text))
        @@ (pep_9_md :> ReadOk(md_text)) @@ (pep_9_txt :> ReadOk(txt_text))
        @@ (pep_9_examples_py :> ReadOk(py_text)) @@ (pep_0001_rst :> ReadOk(pep_1_text))

InitMetadata ==
    /\ commits \in SeqsUpTo(MetadataCommitPool, MaxCommits)
    /\ \/ repo_path = repo_dir /\ repo \in Repos
       \/ repo_path \in {NoneStr, <<>>} /\ repo = FullRepo
    /\ activities = <<>>
    /\ NoSignalCall
    /\ NoParserCall /\ NoMetadataCall /\ NoFormatCall /\ NoGitCall
    /\ pc = "call"

NextMetadata == Aggregate

SpecMetadata == InitMetadata /\ [][NextMetadata]_vars

\* The metadata fields of an activity.
MetadataOf(activity) ==
    [title |-> activity.title, status |-> activity.status,
     abstract |-> activity.abstract, authors |-> activity.authors,
     pep_type |-> activity.pep_type, created |-> activity.created]

\* Reading the file gives text, and the text is not empty.
YieldsContent(path) == repo[path].raised = "no" /\ repo[path].text # <<>>

\* The files of a PEP that may hold its metadata, in the order of priority:
\* .rst, then .md, then .txt, each in ascending path order.
Candidates(number) ==
    LET sorted == SortedStrings(ChangedPathsOf(number))
        ending(suffix) == SelectSeq(sorted, LAMBDA path : EndsWith(path, suffix))
    IN  ending(<<".", "r", "s", "t">>) \o ending(<<".", "m", "d">>)
            \o ending(<<".", "t", "x", "t">>)

\* C6: with a repository path, the metadata of a PEP is parsed from the first
\* of its candidates that yields content: no file of lower priority, and no
\* file of another extension, is used.
C6_MetadataByPriority ==
    (Returned /\ Truthy(repo_path)) =>
        \A i \in 1..Len(activities) :
            LET yielding == SelectSeq(Candidates(activities[i].pep_number), YieldsContent)
            IN  yielding # <<>> =>
                    MetadataOf(activities[i])
                        = extract_pep_metadata(repo[yielding[1]].text)

\* pep-9.md and pep-9.rst both hold text, and the title is that of the .rst.
C6_Witness ==
    /\ Returned
    /\ repo_path = repo_dir
    /\ Len(activities) = 1
    /\ activities[1].files = <<pep_9_md, pep_9_rst>>
    /\ YieldsContent(pep_9_md) /\ YieldsContent(pep_9_rst)
    /\ activities[1].title = <<"R", "S", "T", " ", "V", "e", "r", "s", "i", "o", "n">>

\* C7: a candidate whose read raises or gives empty content is passed over
\* for the next one; a PEP none of whose candidates yields content still has
\* its activity, with every metadata field None and no authors.
C7_UnreadableSkipped ==
    (Returned /\ Truthy(repo_path)) =>
        /\ {activities[i].pep_number : i \in 1..Len(activities)} = TouchedNumbers
        /\ \A i \in 1..Len(activities) :
              LET candidates == Candidates(activities[i].pep_number)
              IN  /\ (\A k \in 1..Len(candidates) : ~YieldsContent(candidates[k]))
                        => MetadataOf(activities[i]) = PepMetadata
                  /\ \A k \in 1..Len(candidates) :
                        (/\ YieldsContent(candidates[k])
                         /\ \A j \in 1..(k - 1) : ~YieldsContent(candidates[j]))
                            => MetadataOf(activities[i])
                                   = extract_pep_metadata(repo[candidates[k]].text)

\* PEP 1's only file cannot be read; of PEP 9 both .rst raise, the .md is
\* empty and the .txt holds the title.
C7_Witness ==
    /\ Returned
    /\ repo_path = repo_dir
    /\ Len(activities) = 2
    /\ repo[pep_0001_rst].raised = "PermissionError"
    /\ MetadataOf(activities[1]) = PepMetadata
    /\ activities[2].files
           = <<pep_9_a_rst, pep_9_examples_py, pep_9_md, pep_9_rst, pep_9_txt>>
    /\ repo[pep_9_a_rst].raised = "OSError"
    /\ repo[pep_9_rst].raised = "FileNotFoundError"
    /\ repo[pep_9_md] = ReadOk(<<>>)
    /\ activities[2].title = <<"T", "X", "T", " ", "V", "e", "r", "s", "i", "o", "n">>


-----------------------------------------------------------------------------
(* extract_pep_number(file_path): a path and the same path under a         *)
(* directory are mapped to their PEP numbers                               *)

\* The most pieces a path is made of.
MaxParts == 3

\* The pieces of the paths: the literal in three letter cases and without
\* its hyphen, digits, a run of zeros, both separators, an extension, letters
\* and a suffix.
PathParts ==
    { <<"p", "e", "p", "-">>,
      <<"P", "E", "P", "-">>,
      <<"P", "e", "p", "-">>,
      <<"p", "e", "p">>,
      <<"0">>,
      <<"1">>,
      <<"0", "0", "0">>,
      <<"/">>,
      <<"\\">>,
      <<".", "r", "s", "t">>,
      <<"a", "b", "c">>,
      <<"-", "x">> }

Paths == {Concat(parts) : parts \in SeqsUpTo(PathParts, MaxParts)}

\* The directories put in front of a path: none, a plain one, one that looks
\* like a PEP file, a nested one, one with a backslash.
Prefixes ==
    { <<>>,
      <<"p", "e", "p", "s">>,
      <<"p", "e", "p", "-", "9", ".", "r", "s", "t">>,
      <<"a", "/", "b">>,
      <<"C", ":", "\\", "x">> }

InitParser ==
    /\ parsed_path \in Paths
    /\ \E prefix \in Prefixes : prefixed_path = prefix \o <<"/">> \o parsed_path
    /\ parsed_number = None
    /\ prefixed_number = None
    /\ NoAggregateCall /\ NoSignalCall /\ NoMetadataCall /\ NoFormatCall /\ NoGitCall
    /\ pc = "call"

\* parsed_number = extract_pep_number(parsed_path), and the same for the
\* prefixed path.
ExtractPepNumber ==
    /\ pc = "call"
    /\ parsed_number' = extract_pep_number(parsed_path)
    /\ prefixed_number' = extract_pep_number(prefixed_path)
    /\ pc' = "done"
    /\ UNCHANGED <<commits, repo_path, repo, activities, content, pep_number,
                   signals, parsed_path, prefixed_path, metadata_vars, format_vars, git_vars>>

NextParser == ExtractPepNumber

SpecParser == InitParser /\ [][NextParser]_vars


\* The part of the path after its last "/" or "\\": the whole path when it has
\* neither.
FileNameOf(path) ==
    LET cut == CHOOSE k \in 0..Len(path) :
                   /\ \A i \in (k + 1)..Len(path) : path[i] \notin {"/", "\\"}
                   /\ k > 0 => path[k] \in {"/", "\\"}
    IN  SubSeq(path, cut + 1, Len(path))

\* The decimal digit a character stands for.
DecimalDigit(c) ==
    CASE c = "0" -> 0 [] c = "1" -> 1 [] c = "2" -> 2 [] c = "3" -> 3
      [] c = "4" -> 4 [] c = "5" -> 5 [] c = "6" -> 6 [] c = "7" -> 7
      [] c = "8" -> 8 [] c = "9" -> 9

IsDecimalDigit(c) == c \in {"0", "1", "2", "3", "4", "5", "6", "7", "8", "9"}

RECURSIVE PowerOfTen(_)
PowerOfTen(n) == IF n = 0 THEN 1 ELSE 10 * PowerOfTen(n - 1)

\* The number a file name stands for: the value of the digits that follow
\* "pep-" (in any letter case) at its start, or None.
NumberOfName(name) ==
    IF /\ Len(name) >= 5
       /\ name[1] \in {"p", "P"} /\ name[2] \in {"e", "E"}
       /\ name[3] \in {"p", "P"} /\ name[4] = "-"
       /\ IsDecimalDigit(name[5])
    THEN LET n == CHOOSE k \in 1..(Len(name) - 4) :
                      /\ \A i \in 5..(4 + k) : IsDecimalDigit(name[i])
                      /\ 4 + k < Len(name) => ~IsDecimalDigit(name[5 + k])
         IN  SumOver([i \in 1..n |-> DecimalDigit(name[4 + i]) * PowerOfTen(n - i)], 1)
    ELSE None

\* C11: a path and the same path under any directory prefix map to the same
\* PEP number or both to None, also when the path is empty, when it holds
\* separators itself and when the prefix looks like a PEP file name.
C11_StableUnderPrefix ==
    Returned => parsed_number = prefixed_number

\* A path with a backslash under a directory that looks like a PEP file.
C11_Witness ==
    /\ Returned
    /\ parsed_path = <<"\\", "p", "e", "p", "-", "1">>
    /\ prefixed_path = <<"p", "e", "p", "-", "9", ".", "r", "s", "t", "/",
                         "\\", "p", "e", "p", "-", "1">>
    /\ parsed_number = 1
    /\ prefixed_number = 1

-----------------------------------------------------------------------------
(* extract_pep_metadata(content): the header lines of a text are parsed    *)

\* The most lines of a text of header lines.
MaxHeaderLines == 3

\* The lines of the texts: the five recognized keys in several letter cases,
\* a key that is not recognized, a header without a value and one without a
\* key, lines that begin with whitespace (one with a colon), a line without a
\* colon, the empty line and a line of one space.
HeaderLines ==
    { <<"T", "i", "t", "l", "e", ":", " ", "A">>,
      <<"T", "I", "T", "L", "E", " ", ":", " ", "B">>,
      <<"s", "t", "a", "t", "u", "s", ":", "x">>,
      <<"T", "y", "p", "e", ":", " ", "y">>,
      <<"C", "R", "E", "A", "T", "E", "D", ":", " ", "z">>,
      <<"A", "u", "T", "h", "O", "r", ":", " ", "a", ",", " ", ",", "b">>,
      <<"P", "E", "P", ":", " ", "1">>,
      <<"T", "i", "t", "l", "e", ":">>,
      <<":", " ", "v">>,
      <<" ", "c", ":", " ", "d">>,
      <<"\t", "e">>,
      <<"n", "o", "c", "o", "l", "o", "n">>,
      <<>>,
      <<" ">> }

\* The content of the example in the docstring of extract_pep_metadata.
docstring_example ==
    <<"\n", "P", "E", "P", ":", " ", "8", "1", "5", "\n", "T", "i", "t", "l", "e", ":", " ", "T", "e", "s", "t", " ", "P", "E", "P", "\n", "S", "t", "a", "t", "u", "s", ":", " ", "D", "r", "a", "f", "t", "\n", "\n", "T", "h", "i", "s", " ", "i", "s", " ", "t", "h", "e", " ", "a", "b", "s", "t", "r", "a", "c", "t", ".", "\n">>

HeaderTexts ==
    {Join(lines, <<"\n">>) : lines \in SeqsUpTo(HeaderLines, MaxHeaderLines)}
        \cup {docstring_example}

InitHeaders ==
    /\ pep_text \in HeaderTexts
    /\ pep_headers = <<>>
    /\ pep_metadata = PepMetadata
    /\ NoAggregateCall /\ NoSignalCall /\ NoParserCall /\ NoFormatCall /\ NoGitCall
    /\ pc = "call"

\* pep_metadata = extract_pep_metadata(pep_text); pep_headers is the local
\* headers of the call, which the early return for blank content never sets.
ExtractPepMetadata ==
    /\ pc = "call"
    /\ pep_headers' = IF Strip(pep_text) = <<>> THEN <<>>
                      ELSE _parse_headers(Split(pep_text, "\n"))
    /\ pep_metadata' = extract_pep_metadata(pep_text)
    /\ pc' = "done"
    /\ UNCHANGED <<commits, repo_path, repo, activities, content, pep_number,
                   signals, parser_vars, pep_text, format_vars, git_vars>>

NextHeaders == ExtractPepMetadata

SpecHeaders == InitHeaders /\ [][NextHeaders]_vars

-----------------------------------------------------------------------------
(* Properties of the header phase                                          *)

\* The lines of the text.
LinesOf(t) == Split(t, "\n")

\* A line that is empty or holds whitespace only.
IsBlank(line) == \A i \in 1..Len(line) : line[i] \in {" ", "\t", "\n"}

\* The number of lines before the first blank line.
BlockEnd(lines) ==
    IF \E i \in 1..Len(lines) : IsBlank(lines[i])
    THEN (CHOOSE i \in 1..Len(lines) :
              IsBlank(lines[i]) /\ \A j \in 1..(i - 1) : ~IsBlank(lines[j])) - 1
    ELSE Len(lines)

LedByWhitespace(line) == line # <<>> /\ line[1] \in {" ", "\t", "\n"}

HasColon(line) == \E i \in 1..Len(line) : line[i] = ":"

\* The header lines: the lines before the first blank line that hold a colon
\* and do not begin with whitespace.
Starts(lines) ==
    {i \in 1..BlockEnd(lines) : HasColon(lines[i]) /\ ~LedByWhitespace(lines[i])}

FirstColon(line) ==
    CHOOSE i \in 1..Len(line) : line[i] = ":" /\ \A j \in 1..(i - 1) : line[j] # ":"

\* The key of a header line: what stands before its first colon, trimmed, in
\* lower case.
KeyOf(line) == ToLower(Strip(SubSeq(line, 1, FirstColon(line) - 1)))

\* The header lines that have a key and are the last with their key.
LastStarts(lines) ==
    {i \in Starts(lines) :
        /\ KeyOf(lines[i]) # <<>>
        /\ \A j \in Starts(lines) : j > i => KeyOf(lines[j]) # KeyOf(lines[i])}

\* The lines that continue header line i: those that begin with whitespace
\* between it and the next header line or the end of the header block.
ContinuationsOf(lines, i) ==
    {j \in (i + 1)..BlockEnd(lines) :
        /\ LedByWhitespace(lines[j])
        /\ \A k \in Starts(lines) : ~(i < k /\ k < j)}

\* The lines with the given indexes, trimmed, in ascending order.
RECURSIVE TrimmedAt(_, _)
TrimmedAt(lines, indexes) ==
    IF indexes = {} THEN <<>>
    ELSE LET least == CHOOSE i \in indexes : \A j \in indexes : i <= j
         IN  <<Strip(lines[least])>> \o TrimmedAt(lines, indexes \ {least})

\* The value of header line i: what follows its first colon and its
\* continuation lines, each trimmed, joined by single spaces, trimmed.
ValueOf(lines, i) ==
    Strip(Join(<<Strip(SubSeq(lines[i], FirstColon(lines[i]) + 1, Len(lines[i])))>>
               \o TrimmedAt(lines, ContinuationsOf(lines, i)), <<" ">>))

HeaderKeys(d) == {d[i].key : i \in 1..Len(d)}

\* C13: a line that begins with whitespace and follows a header line is
\* appended to that header's value, trimmed and joined by a single space, and
\* never starts a header of its own, colon or not; before any header line it
\* is ignored.
C13_ContinuationAppended ==
    Returned =>
        LET lines == LinesOf(pep_text)
        IN  /\ \A i \in LastStarts(lines) :
                  /\ DictHas(pep_headers, KeyOf(lines[i]))
                  /\ DictAt(pep_headers, KeyOf(lines[i])) = ValueOf(lines, i)
            /\ \A key \in HeaderKeys(pep_headers) :
                  \E i \in Starts(lines) : KeyOf(lines[i]) = key

\* A continuation line with a colon after a title.
C13_Witness ==
    /\ Returned
    /\ pep_text = <<"T", "i", "t", "l", "e", ":", " ", "A", "\n", " ", "c", ":", " ", "d", "\n", "\t", "e">>
    /\ pep_headers = <<[key |-> <<"t", "i", "t", "l", "e">>, value |-> <<"A", " ", "c", ":", " ", "d", " ", "e">>]>>
    /\ pep_metadata.title = <<"A", " ", "c", ":", " ", "d", " ", "e">>

\* The fields of the metadata that come from one header each, and its key.
FieldKeys ==
    { [field |-> "title", key |-> <<"t", "i", "t", "l", "e">>],
      [field |-> "status", key |-> <<"s", "t", "a", "t", "u", "s">>],
      [field |-> "pep_type", key |-> <<"t", "y", "p", "e">>],
      [field |-> "created", key |-> <<"c", "r", "e", "a", "t", "e", "d">>] }

AuthorKey == <<"a", "u", "t", "h", "o", "r">>

\* C14: header parsing stops at the first blank line: the keys parsed are the
\* keys of the header lines before it, every one of them kept, and no line
\* after it gives a key or a value to title, status, type, created or authors.
C14_StopsAtFirstBlank ==
    Returned =>
        LET lines == LinesOf(pep_text)
        IN  /\ HeaderKeys(pep_headers) = {KeyOf(lines[i]) : i \in Starts(lines)} \ {<<>>}
            /\ \A n \in 1..Len(pep_headers) :
                  \E i \in Starts(lines) :
                      /\ i <= BlockEnd(lines)
                      /\ KeyOf(lines[i]) = pep_headers[n].key
                      /\ ValueOf(lines, i) = pep_headers[n].value
            /\ \A f \in FieldKeys :
                  pep_metadata[f.field] # NoneStr =>
                      \E i \in Starts(lines) :
                          /\ KeyOf(lines[i]) = f.key
                          /\ ValueOf(lines, i) = pep_metadata[f.field]
            /\ pep_metadata.authors # <<>> =>
                  \E i \in Starts(lines) : KeyOf(lines[i]) = AuthorKey

\* A status header after the blank line that follows the title.
C14_Witness ==
    /\ Returned
    /\ pep_text = <<"T", "i", "t", "l", "e", ":", " ", "A", "\n", "\n", "s", "t", "a", "t", "u", "s", ":", "x">>
    /\ pep_metadata.title = <<"A">>
    /\ pep_metadata.status = NoneStr
    /\ HeaderKeys(pep_headers) = {<<"t", "i", "t", "l", "e">>}

\* The lines of the header block that cannot be parsed: not blank, without a
\* colon, not begun by whitespace.
Unparseable(lines) ==
    {j \in 1..BlockEnd(lines) : ~HasColon(lines[j]) /\ ~LedByWhitespace(lines[j])}

\* C15: a line of the header block with no colon that does not begin with
\* whitespace is passed over: every header before it keeps its value and
\* every header line after it, up to the first blank line, is recognized.
C15_UnparseableSkipped ==
    Returned =>
        LET lines == LinesOf(pep_text)
        IN  \A j \in Unparseable(lines) :
                /\ \A i \in Starts(lines) :
                      KeyOf(lines[i]) # <<>> => KeyOf(lines[i]) \in HeaderKeys(pep_headers)
                /\ \A i \in LastStarts(lines) :
                      /\ \E n \in 1..Len(pep_headers) :
                            pep_headers[n] = [key |-> KeyOf(lines[i]),
                                              value |-> ValueOf(lines, i)]
                      /\ \A f \in FieldKeys :
                            f.key = KeyOf(lines[i]) =>
                                pep_metadata[f.field] = ValueOf(lines, i)

\* A line without a colon between a title and a status.
C15_Witness ==
    /\ Returned
    /\ pep_text = <<"T", "i", "t", "l", "e", ":", " ", "A", "\n", "n", "o", "c", "o", "l", "o", "n", "\n", "s", "t", "a", "t", "u", "s", ":", "x">>
    /\ pep_metadata.title = <<"A">>
    /\ pep_metadata.status = <<"x">>

\* The parts that are not blank, trimmed, in order.
RECURSIVE NonBlankTrimmed(_)
NonBlankTrimmed(parts) ==
    IF parts = <<>> THEN <<>>
    ELSE (IF IsBlank(parts[1]) THEN <<>> ELSE <<Strip(parts[1])>>)
         \o NonBlankTrimmed(Tail(parts))

RecognizedKeys == {f.key : f \in FieldKeys} \cup {AuthorKey}

\* C16: header keys are matched in any letter case after trimming: title,
\* status, type, created and author fill title, status, pep_type, created and
\* authors, and a header with any other key changes no field.
C16_KeysAnyCase ==
    Returned =>
        LET lines == LinesOf(pep_text)
        IN  /\ \A i \in LastStarts(lines) :
                  /\ \A f \in FieldKeys :
                        KeyOf(lines[i]) = f.key =>
                            pep_metadata[f.field] = ValueOf(lines, i)
                  /\ KeyOf(lines[i]) = AuthorKey =>
                        pep_metadata.authors =
                            NonBlankTrimmed(Split(ValueOf(lines, i), ","))
            /\ (\A i \in Starts(lines) : KeyOf(lines[i]) \notin RecognizedKeys)
                  => /\ \A f \in FieldKeys : pep_metadata[f.field] = NoneStr
                     /\ pep_metadata.authors = <<>>

\* An upper-case title with a space before its colon, a key that is not
\* recognized and authors in mixed case.
C16_Witness ==
    /\ Returned
    /\ pep_text = <<"T", "I", "T", "L", "E", " ", ":", " ", "B", "\n", "P", "E", "P", ":", " ", "1", "\n", "A", "u", "T", "h", "O", "r", ":", " ", "a", ",", " ", ",", "b">>
    /\ pep_metadata.title = <<"B">>
    /\ pep_metadata.authors = << <<"a">>, <<"b">> >>
    /\ pep_metadata.status = NoneStr

\* C17: each of title, status, pep_type and created is None exactly when no
\* header line with its key stands before the first blank line, and never ""
\* for a missing header; empty and whitespace-only text gives None for the
\* four fields and the abstract, and no authors.
C17_NoneWhenHeaderMissing ==
    Returned =>
        LET lines == LinesOf(pep_text)
        IN  /\ \A f \in FieldKeys :
                  pep_metadata[f.field] = NoneStr
                      <=> ~\E i \in Starts(lines) : KeyOf(lines[i]) = f.key
            /\ IsBlank(pep_text) =>
                  /\ \A f \in FieldKeys : pep_metadata[f.field] = NoneStr
                  /\ pep_metadata.abstract = NoneStr
                  /\ pep_metadata.authors = <<>>

\* A title header without a value gives "", the missing status gives None.
C17_Witness ==
    /\ Returned
    /\ pep_text = <<"T", "i", "t", "l", "e", ":", "\n", "T", "y", "p", "e", ":", " ", "y">>
    /\ pep_metadata.title = <<>>
    /\ pep_metadata.status = NoneStr
    /\ pep_metadata.pep_type = <<"y">>


-----------------------------------------------------------------------------
(* extract_pep_metadata(content): the abstract is taken from the body      *)

\* The most lines of a body.
MaxBodyLines == 3

\* The lines of the bodies: the empty line and a line of one space, two plain
\* lines, the Abstract marker of both markups, an underline, a directive, a
\* line of capitalized words, a sentence and a markdown heading.
BodyLines ==
    { <<>>,
      <<" ">>,
      <<"o", "n", "e">>,
      <<"t", "w", "o", " ", "x">>,
      <<"A", "b", "s", "t", "r", "a", "c", "t">>,
      <<"#", "#", " ", "a", "b", "s", "t", "r", "a", "c", "t">>,
      <<"=", "=", "=">>,
      <<".", ".", " ", "x">>,
      <<"N", "e", "x", "t", " ", "p", "a", "r", "t">>,
      <<"I", "t", " ", "i", "s", ".">>,
      <<"#", " ", "H">> }

\* What stands before the lines drawn from BodyLines: nothing, a header, a
\* header and the blank line that ends the header block, a blank line alone,
\* and a header block followed by a paragraph of one line and the blank line
\* that ends the paragraph.
HeaderBlocks ==
    { <<>>,
      <<<<"T", "i", "t", "l", "e", ":", " ", "A">>>>,
      <<<<"T", "i", "t", "l", "e", ":", " ", "A">>, <<>>>>,
      << <<>> >>,
      <<<<"T", "i", "t", "l", "e", ":", " ", "A">>, <<>>, <<"o", "n", "e">>, <<>>>> }

AbstractTexts ==
    {Join(block \o body, <<"\n">>) :
        block \in HeaderBlocks, body \in SeqsUpTo(BodyLines, MaxBodyLines)}

InitAbstract ==
    /\ pep_text \in AbstractTexts
    /\ pep_headers = <<>>
    /\ pep_metadata = PepMetadata
    /\ NoAggregateCall /\ NoSignalCall /\ NoParserCall /\ NoFormatCall /\ NoGitCall
    /\ pc = "call"

NextAbstract == ExtractPepMetadata

SpecAbstract == InitAbstract /\ [][NextAbstract]_vars

-----------------------------------------------------------------------------
(* Properties of the abstract phase                                        *)

\* The lines after the first blank line; none when no line is blank.
BodyOf(lines) ==
    IF BlockEnd(lines) = Len(lines) THEN <<>>
    ELSE SubSeq(lines, BlockEnd(lines) + 2, Len(lines))

\* The lines a paragraph can begin with: not blank, not an underline, not a
\* directive.
ParagraphStarts(body) ==
    {i \in 1..Len(body) :
        /\ ~IsBlank(body[i])
        /\ ~IsUnderline(Strip(body[i]))
        /\ ~StartsWith(Strip(body[i]), <<".", ".", " ">>)}

\* The lines that end a paragraph begun at line from: blank, or like a
\* section header.
ParagraphEnds(body, from) ==
    {i \in (from + 1)..Len(body) :
        IsBlank(body[i]) \/ IsSectionHeader(Strip(body[i]))}

\* The first paragraph of the body: its lines, underlines left out, trimmed
\* and joined by newlines; None without one.
FirstParagraph(body) ==
    IF ParagraphStarts(body) = {} THEN NoneStr
    ELSE LET from == SetMin(ParagraphStarts(body))
             to == IF ParagraphEnds(body, from) = {} THEN Len(body)
                   ELSE SetMin(ParagraphEnds(body, from)) - 1
         IN  Join(TrimmedAt(body, {i \in from..to : ~IsUnderline(Strip(body[i]))}),
                  <<"\n">>)

\* C18: without an Abstract marker in the body the abstract is the whole
\* first paragraph after the blank line that ends the headers: every line from
\* the first that is not blank, not a marker and not a directive up to the
\* next blank or section-header-like line, trimmed and joined by newlines.
C18_WholeFirstParagraph ==
    Returned /\ ~IsBlank(pep_text) =>
        LET body == BodyOf(LinesOf(pep_text))
        IN  (\A i \in 1..Len(body) : ~IsAbstractMarker(Strip(body[i])))
                => pep_metadata.abstract = FirstParagraph(body)

\* C19: the abstract is never "" and never holds an empty line; it is None
\* when the text has no blank line and when its first blank line is its last
\* line, and then the headers are parsed as usual.
C19_AbstractNoneNotEmpty ==
    Returned =>
        LET lines == LinesOf(pep_text)
            parts == Split(pep_metadata.abstract, "\n")
        IN  /\ pep_metadata.abstract # <<>>
            /\ pep_metadata.abstract # NoneStr =>
                  \A n \in 1..Len(parts) : ~IsBlank(parts[n])
            /\ BlockEnd(lines) >= Len(lines) - 1 =>
                  /\ pep_metadata.abstract = NoneStr
                  /\ \A i \in LastStarts(lines) :
                        /\ DictHas(pep_headers, KeyOf(lines[i]))
                        /\ \A f \in FieldKeys :
                              KeyOf(lines[i]) = f.key =>
                                  pep_metadata[f.field] = ValueOf(lines, i)

\* A header and the blank line after it, which is the last line.
C19_Witness ==
    /\ Returned
    /\ pep_text = <<"T", "i", "t", "l", "e", ":", " ", "A", "\n">>
    /\ pep_metadata.abstract = NoneStr
    /\ pep_metadata.title = <<"A">>

-----------------------------------------------------------------------------
(* format_as_text(activities, signals) and format_as_json(activities,      *)
(* signals): activities and signals are formatted                          *)

\* The longest list of signals handed to the formatters.
MaxSignals == 3

PepActivity(number, count, files, title, status, abstract, authors, messages) ==
    [pep_number |-> number, commit_count |-> count, files |-> files,
     title |-> title, status |-> status, abstract |-> abstract,
     authors |-> authors, pep_type |-> NoneStr, created |-> NoneStr,
     commit_messages |-> messages]

\* PEP 1 with its metadata and one commit.
activity_1 ==
    PepActivity(1, 1, <<pep_0001_rst>>, <<"T">>, <<"D", "r", "a", "f", "t">>, <<"x", "\n", "y">>,
                <<<<"a">>>>, <<<<"F", "i", "x">>>>)

\* PEP 815 with the required fields alone and two commits.
activity_815 ==
    PepActivity(815, 2, <<<<"p", "e", "p", "-", "0", "8", "1", "5", ".", "r", "s", "t">>>>, NoneStr, NoneStr, NoneStr, <<>>,
                <<<<"A", "d", "d">>, <<"F", "i", "x">>>>)

\* PEP 1 once more, without metadata and without files or messages.
activity_1_bare == PepActivity(1, 3, <<>>, NoneStr, NoneStr, NoneStr, <<>>, <<>>)

\* The lists of activities: none, one, two with the greater number first, and
\* three of which two have one number.
ActivityLists ==
    { <<>>,
      <<activity_1>>,
      <<activity_815, activity_1>>,
      <<activity_1, activity_815, activity_1_bare>> }

normative_language == <<"n", "o", "r", "m", "a", "t", "i", "v", "e", "_", "l", "a", "n", "g", "u", "a", "g", "e">>
deprecation == <<"d", "e", "p", "r", "e", "c", "a", "t", "i", "o", "n">>
status_final == <<"s", "t", "a", "t", "u", "s", "_", "f", "i", "n", "a", "l">>

\* The signals: three kinds and two values for PEP 1, a second signal of one
\* kind and value with another description, one for PEP 815, one for a PEP
\* without activity.
SignalPool ==
    { PepSignal(1, normative_language, <<"n">>, 50),
      PepSignal(1, normative_language, <<"N">>, 50),
      PepSignal(1, deprecation, <<"d">>, 50),
      PepSignal(1, status_final, <<"f">>, 100),
      PepSignal(815, normative_language, <<"n">>, 50),
      PepSignal(7, status_final, <<"f">>, 100) }

InitFormat ==
    /\ activities \in ActivityLists
    /\ signals \in SeqsUpTo(SignalPool, MaxSignals)
    /\ text_output = <<>>
    /\ json_output = <<>>
    /\ commits = <<>>
    /\ repo_path = NoneStr
    /\ repo = EmptyRepo({})
    /\ content = <<>>
    /\ pep_number = 0
    /\ NoParserCall /\ NoMetadataCall /\ NoGitCall
    /\ pc = "call"

\* text_output = format_as_text(activities, signals)
FormatAsText ==
    /\ pc = "call"
    /\ text_output' = format_as_text(activities, signals)
    /\ pc' = "text"
    /\ UNCHANGED <<commits, repo_path, repo, activities, content, pep_number,
                   signals, parser_vars, metadata_vars, json_output, git_vars>>

\* json_output = the value format_as_json(activities, signals) serializes
FormatAsJson ==
    /\ pc = "call"
    /\ json_output' = format_as_json(activities, signals)
    /\ pc' = "json"
    /\ UNCHANGED <<commits, repo_path, repo, activities, content, pep_number,
                   signals, parser_vars, metadata_vars, text_output, git_vars>>

NextFormat == FormatAsText \/ FormatAsJson

SpecFormat == InitFormat /\ [][NextFormat]_vars

-----------------------------------------------------------------------------
(* Properties of the formatters                                            *)

\* The positions of the input signals of PEP n.
SignalsOfPep(n) == {i \in 1..Len(signals) : signals[i].pep_number = n}

\* Whether signal a may stand before signal b: a greater value first, the
\* lesser kind first among equal values.
InDisplayOrder(a, b) ==
    \/ a.signal_value > b.signal_value
    \/ /\ a.signal_value = b.signal_value
       /\ a.signal_type = b.signal_type \/ StrLess(a.signal_type, b.signal_type)

\* The ways to list the input signals of PEP n, each once, in display order.
DisplayOrders(n) ==
    {order \in [1..Cardinality(SignalsOfPep(n)) -> SignalsOfPep(n)] :
        /\ \A i, j \in DOMAIN order : order[i] = order[j] => i = j
        /\ \A i, j \in DOMAIN order :
              i < j => InDisplayOrder(signals[order[i]], signals[order[j]])}

\* The lines of the text that belong to activity k: those between the empty
\* line that ends activity k - 1 and the empty line that ends activity k.
TextBlock(lines, k) ==
    LET empty == {i \in 1..Len(lines) : lines[i] = <<>>}
        ends == [n \in 1..Cardinality(empty) |->
                    CHOOSE i \in empty : Cardinality({j \in empty : j < i}) = n - 1]
    IN  SubSeq(lines, IF k = 1 THEN 1 ELSE ends[k - 1] + 1, ends[k] - 1)

\* The signal lines of a block: the lines after its "  Signals:" line.
SignalLinesOf(block) ==
    LET at == {i \in 1..Len(block) : block[i] = <<" ", " ", "S", "i", "g", "n", "a", "l", "s", ":">>}
    IN  IF at = {} THEN <<>> ELSE SubSeq(block, SetMin(at) + 1, Len(block))

\* Whether the line shows the signal: its value in brackets, its description
\* and possibly the star.
Shows(line, signal) ==
    LET shown == <<" ", " ", " ", " ", "-", " ", "[">> \o IntToStr(signal.signal_value) \o <<"]", " ">>
                 \o signal.description
    IN  line = shown \/ line = shown \o <<" ", Star>>

\* Whether the entry of a "signals" array holds the signal.
Holds(entry, signal) ==
    /\ DictAt(entry, "type") = signal.signal_type
    /\ DictAt(entry, "description") = signal.description
    /\ DictAt(entry, "signal_value") = signal.signal_value

\* C20: in the text and in the JSON the signals under an activity are the
\* input signals of the activity's PEP number, each once, by descending value
\* and by ascending kind among equal values, whatever their input order.
C20_SignalsInDisplayOrder ==
    /\ pc = "text" =>
          \A k \in 1..Len(activities) :
              LET shown == SignalLinesOf(TextBlock(Split(text_output, "\n"), k))
              IN  \E order \in DisplayOrders(activities[k].pep_number) :
                      /\ Len(shown) = Len(order)
                      /\ \A i \in 1..Len(shown) : Shows(shown[i], signals[order[i]])
    /\ pc = "json" =>
          \A k \in 1..Len(activities) :
              LET held == DictAt(json_output[k], "signals")
              IN  \E order \in DisplayOrders(activities[k].pep_number) :
                      /\ Len(held) = Len(order)
                      /\ \A i \in 1..Len(held) : Holds(held[i], signals[order[i]])

\* Three signals of PEP 1 passed with the least value and the greater kind
\* first, shown in the text.
C20_Witness ==
    /\ pc = "text"
    /\ activities = <<activity_815, activity_1>>
    /\ signals = << PepSignal(1, normative_language, <<"n">>, 50),
                    PepSignal(1, deprecation, <<"d">>, 50),
                    PepSignal(1, status_final, <<"f">>, 100) >>
    /\ SignalLinesOf(TextBlock(Split(text_output, "\n"), 2)) =
           << <<" ", " ", " ", " ", "-", " ", "[", "1", "0", "0", "]", " ", "f">> \o <<" ", Star>>, <<" ", " ", " ", " ", "-", " ", "[", "5", "0", "]", " ", "d">>, <<" ", " ", " ", " ", "-", " ", "[", "5", "0", "]", " ", "n">> >>

\* The names of the members of an object, in order.
MemberNames(object) == [i \in 1..Len(object) |-> object[i].key]

\* What an optional field reads as in the JSON.
NullWhenAbsent(field) == IF field = NoneStr THEN "null" ELSE field

\* C21: the JSON array has one element per input activity, in input order;
\* each element holds pep_number, title, status, abstract, authors, pep_type,
\* created, commit_count, commit_messages, files and signals, an absent
\* optional field being null; each entry of signals holds type, description
\* and signal_value; no activity gives the empty array.
C21_OneElementPerActivity ==
    pc = "json" =>
        /\ Len(json_output) = Len(activities)
        /\ activities = <<>> => json_output = <<>>
        /\ \A k \in 1..Len(activities) :
              LET element == json_output[k]
                  activity == activities[k]
              IN  /\ MemberNames(element) =
                        <<"pep_number", "title", "status", "abstract", "authors",
                          "pep_type", "created", "commit_count", "commit_messages",
                          "files", "signals">>
                  /\ DictAt(element, "pep_number") = activity.pep_number
                  /\ DictAt(element, "title") = NullWhenAbsent(activity.title)
                  /\ DictAt(element, "status") = NullWhenAbsent(activity.status)
                  /\ DictAt(element, "abstract") = NullWhenAbsent(activity.abstract)
                  /\ DictAt(element, "authors") = activity.authors
                  /\ DictAt(element, "pep_type") = NullWhenAbsent(activity.pep_type)
                  /\ DictAt(element, "created") = NullWhenAbsent(activity.created)
                  /\ DictAt(element, "commit_count") = activity.commit_count
                  /\ DictAt(element, "commit_messages") = activity.commit_messages
                  /\ DictAt(element, "files") = activity.files
                  /\ \A i \in 1..Len(DictAt(element, "signals")) :
                        MemberNames(DictAt(element, "signals")[i]) =
                            <<"type", "description", "signal_value">>

\* Two activities passed with the greater PEP number first and a signal of
\* the second: the array holds PEP 815 and then PEP 1 with its title and its
\* signal, the absent title of PEP 815 being null.
C21_Witness ==
    /\ pc = "json"
    /\ activities = <<activity_815, activity_1>>
    /\ signals = <<PepSignal(1, status_final, <<"f">>, 100)>>
    /\ DictAt(json_output[1], "pep_number") = 815
    /\ DictAt(json_output[1], "title") = "null"
    /\ DictAt(json_output[2], "pep_number") = 1
    /\ DictAt(json_output[2], "title") = <<"T">>
    /\ Len(DictAt(json_output[2], "signals")) = 1

-----------------------------------------------------------------------------
(* git_adapter.py                                                          *)

\* s.split(sep, maxsplit) for a separator of one or more characters.
RECURSIVE SplitMax(_, _, _)
SplitMax(s, sep, maxsplit) ==
    LET at == {i \in 1..(Len(s) - Len(sep) + 1) : SubSeq(s, i, i + Len(sep) - 1) = sep}
    IN  IF maxsplit = 0 \/ at = {} THEN <<s>>
        ELSE <<SubSeq(s, 1, SetMin(at) - 1)>>
             \o SplitMax(SubSeq(s, SetMin(at) + Len(sep), Len(s)), sep, maxsplit - 1)

\* list.reverse() without the reversal.
NotReversed(list) == list

\* list.reverse()
Reverse(list) == [i \in 1..Len(list) |-> list[Len(list) + 1 - i]]

AllDigits(s) == \A i \in 1..Len(s) : s[i] \in DigitSet

\* The days of the month of the year.
DaysInMonth(year, month) ==
    IF month = 2
    THEN (IF year % 4 = 0 /\ (year % 100 # 0 \/ year % 400 = 0) THEN 29 ELSE 28)
    ELSE IF month \in {4, 6, 9, 11} THEN 30 ELSE 31

\* The exception datetime.fromisoformat raises for a string it cannot parse.
ValueError == "ValueError"

\* The outcome of a call that raises the exception.
Raises(exception) == [raised |-> exception, value |-> <<>>]

\* The outcome of a call that returns the value.
Returns(value) == [raised |-> "None", value |-> value]

\* datetime.fromisoformat(date_string), for the strings that either are in the
\* extended format YYYY-MM-DD, YYYY-MM-DD?HH:MM:SS or YYYY-MM-DD?HH:MM:SS+HH:MM
\* (? any character, the sign + or -) or are in no ISO 8601 format at all. The
\* tzinfo of the datetime is <<>> for None and <<minutes>> for a UTC offset.
fromisoformat(date_string) ==
    LET s == date_string
        n == Len(s)
        date_shape == /\ n >= 10
                      /\ AllDigits(SubSeq(s, 1, 4)) /\ s[5] = "-"
                      /\ AllDigits(SubSeq(s, 6, 7)) /\ s[8] = "-"
                      /\ AllDigits(SubSeq(s, 9, 10))
        year == IntOf(SubSeq(s, 1, 4))
        month == IntOf(SubSeq(s, 6, 7))
        day == IntOf(SubSeq(s, 9, 10))
        date_ok == /\ date_shape
                   /\ year >= 1
                   /\ month \in 1..12
                   /\ day >= 1 /\ day <= DaysInMonth(year, month)
        has_time == n > 10
        time_shape == /\ n >= 19
                      /\ AllDigits(SubSeq(s, 12, 13)) /\ s[14] = ":"
                      /\ AllDigits(SubSeq(s, 15, 16)) /\ s[17] = ":"
                      /\ AllDigits(SubSeq(s, 18, 19))
        hour == IntOf(SubSeq(s, 12, 13))
        minute == IntOf(SubSeq(s, 15, 16))
        second == IntOf(SubSeq(s, 18, 19))
        time_ok == time_shape /\ hour <= 23 /\ minute <= 59 /\ second <= 59
        has_offset == n > 19
        offset_shape == /\ n = 25
                        /\ s[20] \in {"+", "-"}
                        /\ AllDigits(SubSeq(s, 21, 22)) /\ s[23] = ":"
                        /\ AllDigits(SubSeq(s, 24, 25))
        offset_hours == IntOf(SubSeq(s, 21, 22))
        offset_minutes == IntOf(SubSeq(s, 24, 25))
        offset_ok == offset_shape /\ 60 * offset_hours + offset_minutes < 24 * 60
        offset == (IF s[20] = "-" THEN -1 ELSE 1) * (60 * offset_hours + offset_minutes)
    IN  IF ~date_ok \/ (has_time /\ ~time_ok) \/ (has_offset /\ ~offset_ok)
        THEN Raises(ValueError)
        ELSE Returns([year |-> year, month |-> month, day |-> day,
                      hour |-> IF has_time THEN hour ELSE 0,
                      minute |-> IF has_time THEN minute ELSE 0,
                      second |-> IF has_time THEN second ELSE 0,
                      tzinfo |-> IF has_offset THEN <<offset>> ELSE <<>>])

\* The locals of _parse_git_log before the loop. current_timestamp is <<>> for
\* None and <<datetime>> otherwise; raised is the exception that has left the
\* function, "None" while there is none.
ParseStart ==
    [commits |-> <<>>, current_hash |-> NoneStr, current_timestamp |-> <<>>,
     current_message |-> NoneStr, current_files |-> <<>>, raised |-> "None"]

\* save_commit(): the current commit is appended if it is complete.
save_commit(state) ==
    IF /\ Truthy(state.current_hash)
       /\ state.current_timestamp # <<>>
       /\ state.current_message # NoneStr
    THEN [state EXCEPT !.commits =
             Append(@, CommitRecord(state.current_hash, state.current_timestamp[1],
                                    state.current_message, state.current_files))]
    ELSE state

\* The header branch of the loop body without `current_files = []`.
CommitLineKeepFiles(state, line) ==
    LET saved == save_commit(state)
        parts == SplitMax(line, <<"|", "|", "|">>, 3)
        timestamp_str == IF Len(parts) > 2 THEN parts[3] ELSE <<>>
        iso == IF EndsWith(timestamp_str, <<"Z">>)
               THEN SubSeq(timestamp_str, 1, Len(timestamp_str) - 1) \o <<"+", "0", "0", ":", "0", "0">>
               ELSE timestamp_str
        parsed == fromisoformat(iso)
        started == [saved EXCEPT
                       !.current_hash = IF Len(parts) > 1 THEN parts[2] ELSE <<>>,
                       !.current_message = IF Len(parts) > 3 THEN parts[4] ELSE <<>>]
    IN  IF parsed.raised # "None"
        THEN [started EXCEPT !.raised = parsed.raised]
        ELSE [started EXCEPT !.current_timestamp = <<parsed.value>>]

\* The header branch of the loop body: the line starts with "COMMIT|||".
CommitLine(state, line) ==
    LET saved == save_commit(state)
        parts == SplitMax(line, <<"|", "|", "|">>, 3)
        timestamp_str == IF Len(parts) > 2 THEN parts[3] ELSE <<>>
        iso == IF EndsWith(timestamp_str, <<"Z">>)
               THEN SubSeq(timestamp_str, 1, Len(timestamp_str) - 1) \o <<"+", "0", "0", ":", "0", "0">>
               ELSE timestamp_str
        parsed == fromisoformat(iso)
        started == [saved EXCEPT
                       !.current_hash = IF Len(parts) > 1 THEN parts[2] ELSE <<>>,
                       !.current_message = IF Len(parts) > 3 THEN parts[4] ELSE <<>>]
    IN  IF parsed.raised # "None"
        THEN [started EXCEPT !.raised = parsed.raised]
        ELSE [started EXCEPT !.current_timestamp = <<parsed.value>>,
                             !.current_files = <<>>]

\* The file branch of the loop body: the line holds a tab.
FileLine(state, line) ==
    LET parts == SplitMax(line, <<"\t">>, 1)
    IN  [state EXCEPT !.current_files = Append(@, ChangedFile(parts[2], parts[1]))]

\* The body of the loop over the lines, once.
ParseLine(state, raw_line) ==
    LET line == Strip(raw_line)
    IN  IF line = <<>> THEN state
        ELSE IF StartsWith(line, <<"C", "O", "M", "M", "I", "T", "|", "|", "|">>) THEN CommitLine(state, line)
        ELSE IF \E i \in 1..Len(line) : line[i] = "\t" THEN FileLine(state, line)
        ELSE state

\* The loop over the lines from line i on; an exception ends it.
RECURSIVE ParseLines(_, _, _)
ParseLines(lines, i, state) ==
    IF i > Len(lines) \/ state.raised # "None" THEN state
    ELSE ParseLines(lines, i + 1, ParseLine(state, lines[i]))

_parse_git_log(text) ==
    LET state == ParseLines(Split(text, "\n"), 1, ParseStart)
    IN  IF state.raised # "None" THEN Raises(state.raised)
        ELSE Returns(save_commit(state).commits)

\* How subprocess.run(["git", "log", ...], cwd=repo_path, check=True) ends: it
\* completes with exit status 0, or raises CalledProcessError (git exits with
\* another status), FileNotFoundError (no git, no such repo_path),
\* NotADirectoryError (repo_path is a file) or PermissionError (repo_path or
\* git may not be entered or executed).
GitRuns ==
    {"completed", "CalledProcessError", "FileNotFoundError", "NotADirectoryError",
     "PermissionError"}

\* get_recent_commits(repo_path, since), given how git ends and what it
\* writes: the two except clauses return [].
get_recent_commits(run, stdout) ==
    IF run \in {"CalledProcessError", "FileNotFoundError"} THEN Returns(<<>>)
    ELSE IF run # "completed" THEN Raises(run)
    ELSE LET parsed == _parse_git_log(stdout)
         IN  IF parsed.raised # "None" THEN parsed
             ELSE Returns(Reverse(parsed.value))

-----------------------------------------------------------------------------
(* _parse_git_log(git_output) and get_recent_commits(repo_path, since): the *)
(* output of git log is parsed                                             *)

\* The most parts the output of git is put together from.
MaxLogParts == 3

\* The parts of the output of git log --name-status
\* --pretty=format:COMMIT|||%H|||%aI|||%s: a commit with one file, a commit
\* with "|||" in its subject, a Z for its offset and two files, a commit with
\* an empty subject and no file, a header without hash, two headers whose
\* timestamp is no ISO 8601 date (one with no timestamp at all), two file
\* lines, an empty line, a file line between blanks, a line without tab.
LogParts ==
    { <<"C", "O", "M", "M", "I", "T", "|", "|", "|", "a", "1", "|", "|", "|", "2", "0", "2", "4", "-", "0", "1", "-", "0", "2", "T", "0", "3", ":", "0", "4", ":", "0", "5", "-", "0", "5", ":", "0", "0", "|", "|", "|", "A", "d", "d", " ", "P", "E", "P", " ", "1", "\n", "A", "\t", "p", "e", "p", "-", "0", "0", "0", "1", ".", "r", "s", "t">>,
      <<"C", "O", "M", "M", "I", "T", "|", "|", "|", "b", "2", "|", "|", "|", "2", "0", "2", "4", "-", "0", "1", "-", "0", "3", "T", "0", "3", ":", "0", "4", ":", "0", "5", "Z", "|", "|", "|", "F", "i", "x", " ", "a", "|", "|", "|", "b", "\n", "M", "\t", "p", "e", "p", "-", "0", "0", "0", "1", ".", "r", "s", "t", "\n", "M", "\t", "p", "e", "p", "-", "0", "0", "0", "2", ".", "r", "s", "t">>,
      <<"C", "O", "M", "M", "I", "T", "|", "|", "|", "c", "3", "|", "|", "|", "2", "0", "2", "4", "-", "0", "2", "-", "2", "9", "T", "2", "3", ":", "5", "9", ":", "5", "9", "+", "0", "0", ":", "0", "0", "|", "|", "|">>,
      <<"C", "O", "M", "M", "I", "T", "|", "|", "|", "|", "|", "|", "2", "0", "2", "4", "-", "0", "1", "-", "0", "2", "T", "0", "3", ":", "0", "4", ":", "0", "5", "+", "0", "0", ":", "0", "0", "|", "|", "|", "N", "o", " ", "h", "a", "s", "h">>,
      <<"C", "O", "M", "M", "I", "T", "|", "|", "|", "d", "4", "|", "|", "|", "y", "e", "s", "t", "e", "r", "d", "a", "y", "|", "|", "|", "B", "a", "d", " ", "d", "a", "t", "e">>,
      <<"C", "O", "M", "M", "I", "T", "|", "|", "|", "e", "5">>,
      <<"M", "\t", "p", "e", "p", "-", "0", "0", "0", "1", ".", "r", "s", "t">>,
      <<"D", "\t", "p", "e", "p", "-", "0", "0", "0", "2", ".", "r", "s", "t">>,
      <<>>,
      <<" ", "M", "\t", "R", "E", "A", "D", "M", "E", ".", "m", "d", " ">>,
      <<"p", "e", "p", "-", "0", "0", "0", "1", ".", "r", "s", "t">> }

LogTexts == {Join(parts, <<"\n">>) : parts \in SeqsUpTo(LogParts, MaxLogParts)}

InitGitLog ==
    /\ git_run \in GitRuns
    /\ IF git_run = "completed" THEN git_output \in LogTexts ELSE git_output = <<>>
    /\ git_returned = <<>>
    /\ NoAggregateCall /\ NoSignalCall /\ NoParserCall /\ NoMetadataCall
    /\ NoFormatCall
    /\ pc = "call"

\* git_returned = _parse_git_log(git_output)
ParseGitLog ==
    /\ pc = "call"
    /\ git_run = "completed"
    /\ git_returned' = _parse_git_log(git_output)
    /\ pc' = "parsed"
    /\ UNCHANGED <<commits, repo_path, repo, activities, content, pep_number,
                   signals, parser_vars, metadata_vars, format_vars, git_run,
                   git_output>>

\* git_returned = get_recent_commits(repo_path, since)
GetRecentCommits ==
    /\ pc = "call"
    /\ git_returned' = get_recent_commits(git_run, git_output)
    /\ pc' = "done"
    /\ UNCHANGED <<commits, repo_path, repo, activities, content, pep_number,
                   signals, parser_vars, metadata_vars, format_vars, git_run,
                   git_output>>

NextGitLog == ParseGitLog \/ GetRecentCommits

SpecGitLog == InitGitLog /\ [][NextGitLog]_vars

-----------------------------------------------------------------------------
(* Properties of the git adapter                                           *)

\* The elements of a set of numbers in ascending order.
Ordered(S) ==
    [k \in 1..Cardinality(S) |-> CHOOSE i \in S : Cardinality({j \in S : j < i}) = k - 1]

\* The lines of the output of git, each without the whitespace around it.
LogLines(text) == [i \in 1..Len(LinesOf(text)) |-> Strip(LinesOf(text)[i])]

\* The header lines: those that begin with "COMMIT|||".
Headers(lines) ==
    {i \in 1..Len(lines) : Len(lines[i]) >= 9 /\ SubSeq(lines[i], 1, 9) = <<"C", "O", "M", "M", "I", "T", "|", "|", "|">>}

\* Where the first "|||" at or after position from begins; past the end of
\* the line when there is none.
NextBars(line, from) ==
    LET at == {i \in from..(Len(line) - 2) : SubSeq(line, i, i + 2) = <<"|", "|", "|">>}
    IN  IF at = {} THEN Len(line) + 1 ELSE SetMin(at)

\* What stands between positions from and to of the line.
Between(line, from, to) == IF from > to THEN <<>> ELSE SubSeq(line, from, to)

\* The fields of a header line: the hash after the first "|||", the timestamp
\* after the second, the subject after the third.
HashOf(line) == Between(line, 10, NextBars(line, 10) - 1)
StampOf(line) ==
    Between(line, NextBars(line, 10) + 3, NextBars(line, NextBars(line, 10) + 3) - 1)
SubjectOf(line) == Between(line, NextBars(line, NextBars(line, 10) + 3) + 3, Len(line))

\* The header lines with a hash, in order of appearance.
HashedHeaders(lines) == Ordered({i \in Headers(lines) : HashOf(lines[i]) # <<>>})

\* The timestamps of the output that are ISO 8601 dates.
ValidStamps ==
    { <<"2", "0", "2", "4", "-", "0", "1", "-", "0", "2", "T", "0", "3", ":", "0", "4", ":", "0", "5", "-", "0", "5", ":", "0", "0">>, <<"2", "0", "2", "4", "-", "0", "1", "-", "0", "3", "T", "0", "3", ":", "0", "4", ":", "0", "5", "Z">>, <<"2", "0", "2", "4", "-", "0", "2", "-", "2", "9", "T", "2", "3", ":", "5", "9", ":", "5", "9", "+", "0", "0", ":", "0", "0">>,
      <<"2", "0", "2", "4", "-", "0", "1", "-", "0", "2", "T", "0", "3", ":", "0", "4", ":", "0", "5", "+", "0", "0", ":", "0", "0">> }

ValidTimestamps(lines) == \A i \in Headers(lines) : StampOf(lines[i]) \in ValidStamps

\* The file lines of header line i: the lines between it and the next header
\* line that hold a change type and a path with a tab between them.
FileLinesOf(lines, i) ==
    LET later == {j \in Headers(lines) : j > i}
        next == IF later = {} THEN Len(lines) + 1 ELSE SetMin(later)
    IN  Ordered({j \in (i + 1)..(next - 1) : \E t \in 1..Len(lines[j]) : lines[j][t] = "\t"})

\* The path of a file line: what stands after its first tab.
PathOfLine(line) ==
    SubSeq(line, 1 + SetMin({t \in 1..Len(line) : line[t] = "\t"}), Len(line))

\* The PEP numbers the file lines of header line i map to.
NumbersOfHeader(lines, i) ==
    LET file_lines == FileLinesOf(lines, i)
    IN  {extract_pep_number(PathOfLine(lines[file_lines[j]])) : j \in 1..Len(file_lines)}

\* C22: get_recent_commits raises no exception; when git fails, and when the
\* output of git cannot be parsed for a timestamp that is no ISO date, it
\* returns the empty list.
C22_NeverPropagates ==
    pc = "done" =>
        /\ git_returned.raised = "None"
        /\ (git_run # "completed" \/ ~ValidTimestamps(LogLines(git_output)))
               => git_returned.value = <<>>

\* C23: get_recent_commits returns the commits of the output of git in
\* reverse: the last header with a hash first; aggregate_by_pep then lists the
\* messages of a PEP from the last header that touches it to the first.
C23_OldestFirst ==
    pc = "done" /\ git_run = "completed" /\ git_returned.raised = "None" =>
        LET returned == git_returned.value
            lines == LogLines(git_output)
            hashed == HashedHeaders(lines)
            n == Len(hashed)
            reversed == [k \in 1..n |-> hashed[n + 1 - k]]
            numbers == [k \in 1..n |-> NumbersOfHeader(lines, reversed[k])]
        IN  /\ Len(returned) = n
            /\ \A k \in 1..n :
                  /\ returned[k].hash = HashOf(lines[reversed[k]])
                  /\ returned[k].message = SubjectOf(lines[reversed[k]])
            /\ \A iteration \in Iterations(NumbersIn(returned)) :
                  LET result == aggregate_by_pep(returned, NoneStr, EmptyRepo({}), iteration)
                  IN  \A a \in 1..Len(result) :
                          LET touching == SelectSeq([k \in 1..n |-> k],
                                  LAMBDA k : result[a].pep_number \in numbers[k])
                          IN  result[a].commit_messages =
                                  [t \in 1..Len(touching) |->
                                      SubjectOf(lines[reversed[touching[t]]])]

\* git writes a commit of PEP 1 and 2 and then an older commit of PEP 1: the
\* older commit is returned first.
C23_Witness ==
    /\ pc = "done"
    /\ git_run = "completed"
    /\ git_output = <<"C", "O", "M", "M", "I", "T", "|", "|", "|", "b", "2", "|", "|", "|", "2", "0", "2", "4", "-", "0", "1", "-", "0", "3", "T", "0", "3", ":", "0", "4", ":", "0", "5", "Z", "|", "|", "|", "F", "i", "x", " ", "a", "|", "|", "|", "b", "\n", "M", "\t", "p", "e", "p", "-", "0", "0", "0", "1", ".", "r", "s", "t", "\n", "M", "\t", "p", "e", "p", "-", "0", "0", "0", "2", ".", "r", "s", "t", "\n", "C", "O", "M", "M", "I", "T", "|", "|", "|", "a", "1", "|", "|", "|", "2", "0", "2", "4", "-", "0", "1", "-", "0", "2", "T", "0", "3", ":", "0", "4", ":", "0", "5", "-", "0", "5", ":", "0", "0", "|", "|", "|", "A", "d", "d", " ", "P", "E", "P", " ", "1", "\n", "A", "\t", "p", "e", "p", "-", "0", "0", "0", "1", ".", "r", "s", "t">>
    /\ git_returned.raised = "None"
    /\ Len(git_returned.value) = 2
    /\ git_returned.value[1].hash = <<"a", "1">>
    /\ git_returned.value[2].hash = <<"b", "2">>

\* C30: for an output whose timestamps are valid _parse_git_log returns one
\* commit per header line with a hash, in order of appearance, its message
\* what follows the third "|||"; the files of a commit are the file lines
\* between its header and the next header, in order; file lines before the
\* first header belong to no commit.
C30_OneCommitPerHeader ==
    pc = "parsed" =>
        LET lines == LogLines(git_output)
            hashed == HashedHeaders(lines)
        IN  ValidTimestamps(lines) =>
                /\ git_returned.raised = "None"
                /\ Len(git_returned.value) = Len(hashed)
                /\ \A k \in 1..Len(hashed) :
                      LET commit == git_returned.value[k]
                          line == lines[hashed[k]]
                          file_lines == FileLinesOf(lines, hashed[k])
                      IN  /\ commit.hash = HashOf(line)
                          /\ commit.message = SubjectOf(line)
                          /\ Len(commit.files) = Len(file_lines)
                          /\ \A j \in 1..Len(file_lines) :
                                commit.files[j].change_type \o <<"\t">> \o commit.files[j].path
                                    = lines[file_lines[j]]

\* A file line before the first header, a commit with "|||" in its subject
\* and two files, and a second commit with one file.
C30_Witness ==
    /\ pc = "parsed"
    /\ git_output = <<"M", "\t", "p", "e", "p", "-", "0", "0", "0", "1", ".", "r", "s", "t", "\n", "C", "O", "M", "M", "I", "T", "|", "|", "|", "b", "2", "|", "|", "|", "2", "0", "2", "4", "-", "0", "1", "-", "0", "3", "T", "0", "3", ":", "0", "4", ":", "0", "5", "Z", "|", "|", "|", "F", "i", "x", " ", "a", "|", "|", "|", "b", "\n", "M", "\t", "p", "e", "p", "-", "0", "0", "0", "1", ".", "r", "s", "t", "\n", "M", "\t", "p", "e", "p", "-", "0", "0", "0", "2", ".", "r", "s", "t", "\n", "C", "O", "M", "M", "I", "T", "|", "|", "|", "a", "1", "|", "|", "|", "2", "0", "2", "4", "-", "0", "1", "-", "0", "2", "T", "0", "3", ":", "0", "4", ":", "0", "5", "-", "0", "5", ":", "0", "0", "|", "|", "|", "A", "d", "d", " ", "P", "E", "P", " ", "1", "\n", "A", "\t", "p", "e", "p", "-", "0", "0", "0", "1", ".", "r", "s", "t">>
    /\ Len(git_returned.value) = 2
    /\ git_returned.value[1].message = <<"F", "i", "x", " ", "a", "|", "|", "|", "b">>
    /\ Len(git_returned.value[1].files) = 2
    /\ Len(git_returned.value[2].files) = 1

-----------------------------------------------------------------------------
(* Further properties of the aggregation                                   *)

\* The commits of the input that change pep-0000.rst.
CommitsOfPepZero == {i \in 1..Len(commits) : pep_0000_rst \in PathsOf(commits[i].files)}

\* C26: the commits that change pep-0000.rst yield an activity with
\* pep_number 0, one count per such commit and pep-0000.rst in its files: PEP
\* 0 is not dropped as if the path had no number.
C26_PepZeroKept ==
    Returned /\ CommitsOfPepZero # {} =>
        \E i \in 1..Len(activities) :
            /\ activities[i].pep_number = 0
            /\ activities[i].commit_count = Cardinality(CommitsOfPepZero)
            /\ \E j \in 1..Len(activities[i].files) : activities[i].files[j] = pep_0000_rst

\* One commit adds pep-0000.rst.
C26_Witness ==
    /\ Returned
    /\ Len(commits) = 1
    /\ commits[1].files = <<ChangedFile(pep_0000_rst, "A")>>
    /\ Len(activities) = 1
    /\ activities[1].pep_number = 0
    /\ activities[1].commit_count = 1
    /\ activities[1].files = <<pep_0000_rst>>

\* C27: every activity has as many commit messages as its commit_count, at
\* least one, and at least one file; each of its files maps to its pep_number;
\* no path is among the files of two activities.
C27_ActivityWellFormed ==
    Returned =>
        /\ \A i \in 1..Len(activities) :
              /\ activities[i].commit_count = Len(activities[i].commit_messages)
              /\ activities[i].commit_count >= 1
              /\ activities[i].files # <<>>
              /\ \A j \in 1..Len(activities[i].files) :
                    extract_pep_number(activities[i].files[j]) = activities[i].pep_number
        /\ \A i, k \in 1..Len(activities) :
              i # k =>
                  \A j \in 1..Len(activities[i].files) :
                      \A l \in 1..Len(activities[k].files) :
                          activities[i].files[j] # activities[k].files[l]

\* A commit of PEP 2, a file of no PEP and PEP 1, and a commit of two files
\* of PEP 1: two activities, PEP 1 with two commits and two files.
C27_Witness ==
    /\ Returned
    /\ Len(commits) = 2
    /\ Len(commits[1].files) = 3
    /\ Len(commits[2].files) = 2
    /\ Len(activities) = 2
    /\ activities[1].commit_count = 2
    /\ Len(activities[1].files) = 2
    /\ activities[2].commit_count = 1

-----------------------------------------------------------------------------
(* Further properties of the header phase and of the abstract phase        *)

\* The lines from the first line that is not blank on.
AfterLeadingBlanks(lines) ==
    LET kept == {i \in 1..Len(lines) : ~IsBlank(lines[i])}
    IN  IF kept = {} THEN <<>> ELSE SubSeq(lines, SetMin(kept), Len(lines))

\* C25: a blank first line does not end the header phase: for the example of
\* the docstring the title is "Test PEP" and the status "Draft", and in every
\* text that begins with a blank line the header lines after the leading blank
\* lines give title, status, type and created their values.
C25_LeadingBlankLine ==
    Returned =>
        /\ pep_text = docstring_example =>
              /\ pep_metadata.title = <<"T", "e", "s", "t", " ", "P", "E", "P">>
              /\ pep_metadata.status = <<"D", "r", "a", "f", "t">>
        /\ LET lines == LinesOf(pep_text)
               rest == AfterLeadingBlanks(lines)
           IN  IsBlank(lines[1]) =>
                   \A i \in LastStarts(rest) :
                       \A f \in FieldKeys :
                           KeyOf(rest[i]) = f.key =>
                               pep_metadata[f.field] = ValueOf(rest, i)

\* A line that looks like a section header: a markdown heading, or an upper
\* case letter followed by word characters and whitespace up to its end.
IsHeading(stripped) ==
    \/ \E n \in 1..6 :
          /\ Len(stripped) > n
          /\ \A i \in 1..n : stripped[i] = "#"
          /\ stripped[n + 1] \in {" ", "\t"}
    \/ /\ Len(stripped) >= 2
       /\ stripped[1] \in UpperSet
       /\ \A i \in 2..Len(stripped) :
             stripped[i] \in UpperSet \cup LowerSet \cup DigitSet \cup {"_", " ", "\t"}

\* A line the abstract phase skips as structure: a marker or an underline.
IsStructure(line) == IsAbstractMarker(Strip(line)) \/ IsUnderline(Strip(line))

IsDirective(line) == StartsWith(Strip(line), <<".", ".", " ">>)

\* The Abstract markers of the body.
MarkersOf(body) == {i \in 1..Len(body) : IsAbstractMarker(Strip(body[i]))}

\* C24: under an Abstract marker, where every line after the first collected
\* one is looked at, the paragraph runs from its first line to the next blank
\* line or section header; a line that begins with an upper case letter and
\* holds another character than word characters and whitespace, as "It is.",
\* is collected.
C24_EndsOnlyAtHeading ==
    Returned /\ ~IsBlank(pep_text) =>
        LET body == BodyOf(LinesOf(pep_text))
            markers == MarkersOf(body)
        IN  /\ markers # {}
            /\ \A i \in 1..(SetMin(markers) - 1) :
                  IsBlank(body[i]) \/ IsStructure(body[i]) \/ IsDirective(body[i])
            => LET starts == {i \in (SetMin(markers) + 1)..Len(body) :
                                 ~IsBlank(body[i]) /\ ~IsStructure(body[i])}
               IN  starts # {} /\ ~IsDirective(body[SetMin(starts)]) =>
                       LET from == SetMin(starts)
                           ends == {i \in (from + 1)..Len(body) :
                                       \/ IsBlank(body[i])
                                       \/ ~IsStructure(body[i]) /\ IsHeading(Strip(body[i]))}
                           to == IF ends = {} THEN Len(body) ELSE SetMin(ends) - 1
                       IN  pep_metadata.abstract =
                               Join(TrimmedAt(body, {i \in from..to : ~IsStructure(body[i])}),
                                    <<"\n">>)

\* C28: when no Abstract marker stands before the first paragraph, the lines
\* of the abstract are lines of that paragraph, in order: no line after the
\* blank line that ends the paragraph is among them, whether or not an
\* Abstract marker follows.
C28_NothingAfterFirstParagraph ==
    Returned /\ ~IsBlank(pep_text) =>
        LET body == BodyOf(LinesOf(pep_text))
            starts == {i \in 1..Len(body) :
                          ~IsBlank(body[i]) /\ ~IsUnderline(Strip(body[i])) /\ ~IsDirective(body[i])}
        IN  /\ starts # {}
            /\ ~IsAbstractMarker(Strip(body[SetMin(starts)]))
            /\ pep_metadata.abstract # NoneStr
            => LET from == SetMin(starts)
                   blanks == {i \in (from + 1)..Len(body) : IsBlank(body[i])}
                   to == IF blanks = {} THEN Len(body) ELSE SetMin(blanks) - 1
                   parts == Split(pep_metadata.abstract, "\n")
               IN  \E at \in [1..Len(parts) -> from..to] :
                       /\ \A k \in 1..Len(parts) : parts[k] = Strip(body[at[k]])
                       /\ \A k, l \in 1..Len(parts) : k < l => at[k] < at[l]

-----------------------------------------------------------------------------
(* cli.py                                                                  *)

\* The strings detect_signals writes, character by character.
Characters(string) ==
    CASE string = "status_accepted" -> <<"s", "t", "a", "t", "u", "s", "_", "a", "c", "c", "e", "p", "t", "e", "d">>
      [] string = "status_final" -> <<"s", "t", "a", "t", "u", "s", "_", "f", "i", "n", "a", "l">>
      [] string = "status_withdrawn" -> <<"s", "t", "a", "t", "u", "s", "_", "w", "i", "t", "h", "d", "r", "a", "w", "n">>
      [] string = "deprecation" -> <<"d", "e", "p", "r", "e", "c", "a", "t", "i", "o", "n">>
      [] string = "normative_language" -> <<"n", "o", "r", "m", "a", "t", "i", "v", "e", "_", "l", "a", "n", "g", "u", "a", "g", "e">>
      [] string = "Status: Accepted" -> <<"S", "t", "a", "t", "u", "s", ":", " ", "A", "c", "c", "e", "p", "t", "e", "d">>
      [] string = "Status: Final" -> <<"S", "t", "a", "t", "u", "s", ":", " ", "F", "i", "n", "a", "l">>
      [] string = "Status: Withdrawn" -> <<"S", "t", "a", "t", "u", "s", ":", " ", "W", "i", "t", "h", "d", "r", "a", "w", "n">>
      [] string = "Contains deprecation or removal language" ->
             <<"C", "o", "n", "t", "a", "i", "n", "s", " ", "d", "e", "p", "r", "e", "c", "a", "t", "i", "o", "n", " ", "o", "r", " ", "r", "e", "m", "o", "v", "a", "l", " ", "l", "a", "n", "g", "u", "a", "g", "e">>
      [] string = "Contains normative language (RFC 2119 keywords)" ->
             <<"C", "o", "n", "t", "a", "i", "n", "s", " ", "n", "o", "r", "m", "a", "t", "i", "v", "e", " ", "l", "a", "n", "g", "u", "a", "g", "e", " ", "(", "R", "F", "C", " ", "2", "1", "1", "9", " ", "k", "e", "y", "w", "o", "r", "d", "s", ")">>

\* The signals of detect_signals with their strings character by character,
\* as the formatters read them.
DetectedSignals(text, number) ==
    LET detected == detect_signals(text, number)
    IN  [i \in 1..Len(detected) |->
            PepSignal(detected[i].pep_number, Characters(detected[i].signal_type),
                      Characters(detected[i].description), detected[i].signal_value)]

\* The loop of scan over the activities, from activity i on: the signals of
\* the first file of the activity that read_pep_file gives content for.
RECURSIVE ScanSignals(_, _, _)
ScanSignals(activity_list, i, repo_files) ==
    IF i > Len(activity_list) THEN <<>>
    ELSE LET activity == activity_list[i]
             readable == SelectSeq(activity.files, LAMBDA file_path :
                             Truthy(read_pep_file(repo_files, file_path)))
         IN  (IF readable = <<>> THEN <<>>
              ELSE DetectedSignals(read_pep_file(repo_files, readable[1]),
                                   activity.pep_number))
             \o ScanSignals(activity_list, i + 1, repo_files)

-----------------------------------------------------------------------------
(* scan(repo_path, since, output_format): a repository is scanned          *)

\* The most parts the output of git is put together from, for scan.
MaxScanParts == 2

scan_rst_text == <<"T", "i", "t", "l", "e", ":", " ", "R", "\n", "S", "t", "a", "t", "u", "s", ":", " ", "D", "r", "a", "f", "t", "\n", "\n", "Y", "o", "u", " ", "M", "U", "S", "T", ".", "\n">>
scan_py_text == <<"#", " ", "r", "e", "m", "o", "v", "e", "d", "\n">>
scan_md_text == <<"T", "i", "t", "l", "e", ":", " ", "M", "\n", "\n", "N", "o", " ", "l", "o", "n", "g", "e", "r", " ", "S", "H", "A", "L", "L", ".", "\n">>
scan_one_text == <<"T", "i", "t", "l", "e", ":", " ", "O", "n", "e", "\n", "S", "t", "a", "t", "u", "s", ":", " ", "F", "i", "n", "a", "l", "\n">>

\* The parts of the output of git: a commit of PEP 9 with its .rst and an
\* example script, a commit of the .md of PEP 9, a commit of PEP 1, a commit
\* of no PEP and a header whose timestamp is no ISO 8601 date.
ScanLogParts ==
    { <<"C", "O", "M", "M", "I", "T", "|", "|", "|", "a", "1", "|", "|", "|", "2", "0", "2", "4", "-", "0", "1", "-", "0", "2", "T", "0", "3", ":", "0", "4", ":", "0", "5", "+", "0", "0", ":", "0", "0", "|", "|", "|", "A", "d", "d", " ", "P", "E", "P", " ", "9", "\n", "A", "\t", "p", "e", "p", "-", "9", ".", "r", "s", "t", "\n", "A", "\t", "p", "e", "p", "-", "9", "-", "e", "x", "a", "m", "p", "l", "e", "s", ".", "p", "y">>,
      <<"C", "O", "M", "M", "I", "T", "|", "|", "|", "b", "2", "|", "|", "|", "2", "0", "2", "4", "-", "0", "1", "-", "0", "3", "T", "0", "3", ":", "0", "4", ":", "0", "5", "Z", "|", "|", "|", "M", "a", "r", "k", "d", "o", "w", "n", "\n", "A", "\t", "p", "e", "p", "-", "9", ".", "m", "d">>,
      <<"C", "O", "M", "M", "I", "T", "|", "|", "|", "c", "3", "|", "|", "|", "2", "0", "2", "4", "-", "0", "1", "-", "0", "4", "T", "0", "3", ":", "0", "4", ":", "0", "5", "+", "0", "0", ":", "0", "0", "|", "|", "|", "F", "i", "x", " ", "P", "E", "P", " ", "1", "\n", "M", "\t", "p", "e", "p", "-", "0", "0", "0", "1", ".", "r", "s", "t">>,
      <<"C", "O", "M", "M", "I", "T", "|", "|", "|", "d", "4", "|", "|", "|", "2", "0", "2", "4", "-", "0", "1", "-", "0", "5", "T", "0", "3", ":", "0", "4", ":", "0", "5", "+", "0", "0", ":", "0", "0", "|", "|", "|", "R", "e", "a", "d", "m", "e", "\n", "M", "\t", "R", "E", "A", "D", "M", "E", ".", "m", "d">>,
      <<"C", "O", "M", "M", "I", "T", "|", "|", "|", "e", "5", "|", "|", "|", "y", "e", "s", "t", "e", "r", "d", "a", "y", "|", "|", "|", "B", "a", "d", " ", "d", "a", "t", "e">> }

ScanLogTexts == {Join(parts, <<"\n">>) : parts \in SeqsUpTo(ScanLogParts, MaxScanParts)}

\* The repositories: pep-9.rst is missing or holds its text, the example
\* script cannot be read, is empty or holds its text, the other files hold
\* their texts.
ScanRepos ==
    { (pep_9_rst :> rst) @@ (pep_9_examples_py :> py) @@ (pep_9_md :> ReadOk(scan_md_text))
          @@ (pep_0001_rst :> ReadOk(scan_one_text)) :
        rst \in {ReadRaises("FileNotFoundError"), ReadOk(scan_rst_text)},
        py \in {ReadRaises("PermissionError"), ReadOk(<<>>), ReadOk(scan_py_text)} }

InitScan ==
    /\ git_run \in GitRuns
    /\ IF git_run = "completed" THEN git_output \in ScanLogTexts ELSE git_output = <<>>
    /\ git_returned = <<>>
    /\ repo_path = repo_dir
    /\ repo \in ScanRepos
    /\ commits = <<>>
    /\ activities = <<>>
    /\ NoSignalCall /\ NoParserCall /\ NoMetadataCall /\ NoFormatCall
    /\ pc = "call"

\* scan(repo_path, since, output_format). since, normalized, only tells git
\* where to begin, and what git then writes is git_output. The exception of
\* get_recent_commits leaves scan ("raised"); without commits and without
\* activities scan writes a message to stderr and exits ("exit"); otherwise
\* it writes the text or the JSON.
Scan ==
    /\ pc = "call"
    /\ git_returned' = get_recent_commits(git_run, git_output)
    /\ commits' = git_returned'.value
    /\ \E iteration \in Iterations(NumbersIn(commits')) :
          activities' = IF commits' = <<>> THEN <<>>
                        ELSE aggregate_by_pep(commits', repo_path, repo, iteration)
    /\ signals' = ScanSignals(activities', 1, repo)
    /\ \E output_format \in {"text", "json"} :
          IF git_returned'.raised # "None"
          THEN pc' = "raised" /\ UNCHANGED format_vars
          ELSE IF commits' = <<>> \/ activities' = <<>>
          THEN pc' = "exit" /\ UNCHANGED format_vars
          ELSE IF output_format = "json"
          THEN /\ json_output' = format_as_json(activities', signals')
               /\ pc' = "json"
               /\ UNCHANGED text_output
          ELSE /\ text_output' = format_as_text(activities', signals')
               /\ pc' = "text"
               /\ UNCHANGED json_output
    /\ UNCHANGED <<repo_path, repo, content, pep_number, parser_vars, metadata_vars,
                   git_run, git_output>>

NextScan == Scan

SpecScan == InitScan /\ [][NextScan]_vars

-----------------------------------------------------------------------------
(* Properties of scan                                                      *)

\* The signals scan reports for the PEP number.
ReportedFor(number) == SelectSeq(signals, LAMBDA signal : signal.pep_number = number)

\* C29: for every activity whose metadata was parsed from a file, the first
\* .rst, .md or .txt file of the PEP that yields content, the signals scan
\* reports for the PEP are those of the content of that file.
C29_SignalsFromMetadataFile ==
    pc \in {"text", "json"} =>
        \A i \in 1..Len(activities) :
            LET yielding == SelectSeq(Candidates(activities[i].pep_number), YieldsContent)
            IN  yielding # <<>> =>
                    ReportedFor(activities[i].pep_number)
                        = DetectedSignals(repo[yielding[1]].text, activities[i].pep_number)

=============================================================================
